---- MODULE Spec2Model ----
(***************************************************************************)
(* A model of the CoIF -> LSIF converter: the loader of each of the two    *)
(* input dialects (src/src/lsif.ts reads start/end/definition records,     *)
(* src/unnamed/part_003 reads symbol/references lines), the correlated     *)
(* maps they build, and the emission engine they share.                    *)
(*                                                                         *)
(* Strings that the code splits, joins, parses or compares (file names,    *)
(* positions, range keys) are sequences of one-character strings, so that  *)
(* split(':'), join(''), parseInt and the byte order of an index are       *)
(* computed and not assumed.  An item id is the pair of the literal prefix *)
(* the code writes and the text appended to it; no file name of the model  *)
(* starts with such a prefix, so two ids are the same string exactly when  *)
(* the pairs are equal.                                                    *)
(***************************************************************************)
EXTENDS Integers, Sequences, FiniteSets, TLC

VARIABLES
    dialect,               \* "A": part_003 (symbol/references), "B": lsif.ts (records)
    scan,                  \* the row order the storage engine uses for a scan
    inFiles,               \* the input lines, in reading order
    monikerArg,            \* the moniker maps handed to the emission engine
    db,                    \* the scratch database file (survives a run)
    pc,                    \* where the run is
    i, j,                  \* loop positions of the emission engine
    docs, rangesByDoc, hoverByDef, refsByDef, locByRange,
    importMonikerByRange, exportMonikerByRange,
    out,                   \* the items the sink has accepted, in order
    run, prevOut,          \* number of the run, output of the run before
    sink,                  \* the emit function writeLSIF is given
    calls,                 \* the items emit was called with, in order
    pending,               \* the items whose promise is not settled
    resume,                \* where the engine goes on after its await
    error,                 \* what writeLSIF rejected with ("": nothing)
    outFile,               \* the lines of the output file of the command line
    exit                   \* the exit code of the command line

vars == <<dialect, scan, inFiles, monikerArg, db, pc, i, j, docs, rangesByDoc,
          hoverByDef, refsByDef, locByRange, importMonikerByRange,
          exportMonikerByRange, out, run, prevOut, sink, calls, pending,
          resume, error, outFile, exit>>

-----------------------------------------------------------------------------
(* Bounds of the model. *)

\* the longest input, in lines
MaxLines == 3

\* the number of runs of writeLSIF in a row, on the same input files
MaxRuns == 2

-----------------------------------------------------------------------------
(* Text. *)

Digit == <<"0", "1", "2", "3", "4", "5", "6", "7", "8", "9">>

IsDigit(c) == \E d \in 1..10 : Digit[d] = c

DigitVal(c) == (CHOOSE d \in 1..10 : Digit[d] = c) - 1

\* The byte of a character (ASCII), for the characters the model uses.
Ord(c) ==
    CASE c = "*" -> 42
      [] c = "-" -> 45
      [] c = "/" -> 47
      [] IsDigit(c) -> 48 + DigitVal(c)
      [] c = ":" -> 58
      [] c = "N" -> 78
      [] c = "a" -> 97
      [] c = "b" -> 98
      [] c = "c" -> 99

\* memcmp order of two texts (the BINARY collation of a TEXT column).
RECURSIVE TextLess(_, _)
TextLess(s, t) ==
    IF t = <<>> THEN FALSE
    ELSE IF s = <<>> THEN TRUE
    ELSE IF Ord(s[1]) # Ord(t[1]) THEN Ord(s[1]) < Ord(t[1])
    ELSE TextLess(Tail(s), Tail(t))

\* What parseInt gives for a text with no leading number, and what the
\* arithmetic of JavaScript gives for a value that is no number.
NaN == 0 - 1000000

\* a - b
Minus(a, b) == IF a = NaN \/ b = NaN THEN NaN ELSE a - b

\* `${n}` of a number.
RECURSIVE DecNat(_)
DecNat(n) == IF n < 10 THEN <<Digit[n + 1]>> ELSE DecNat(n \div 10) \o <<Digit[(n % 10) + 1]>>

Dec(n) ==
    IF n = NaN THEN <<"N", "a", "N">>
    ELSE IF n < 0 THEN <<"-">> \o DecNat(0 - n) ELSE DecNat(n)

RECURSIVE DigitsVal(_, _)
DigitsVal(s, acc) ==
    IF s = <<>> \/ ~IsDigit(s[1]) THEN acc
    ELSE DigitsVal(Tail(s), 10 * acc + DigitVal(s[1]))

\* parseInt(s, 10): an optional sign, then the longest run of digits.
ParseInt(s) ==
    LET neg  == s # <<>> /\ s[1] = "-"
        body == IF s # <<>> /\ (s[1] = "-" \/ s[1] = "+") THEN Tail(s) ELSE s
    IN  IF body = <<>> \/ ~IsDigit(body[1]) THEN NaN
        ELSE IF neg THEN 0 - DigitsVal(body, 0) ELSE DigitsVal(body, 0)

\* s.split(sep)
RECURSIVE Split(_, _)
Split(s, sep) ==
    IF \A k \in 1..Len(s) : s[k] # sep THEN <<s>>
    ELSE LET k == CHOOSE n \in 1..Len(s) :
                      s[n] = sep /\ \A m \in 1..(n - 1) : s[m] # sep
         IN  <<SubSeq(s, 1, k - 1)>> \o Split(SubSeq(s, k + 1, Len(s)), sep)

\* components.join('')
RECURSIVE JoinEmpty(_)
JoinEmpty(components) ==
    IF components = <<>> THEN <<>>
    ELSE Head(components) \o JoinEmpty(Tail(components))

Colon == <<":">>

-----------------------------------------------------------------------------
(* Insertion-ordered Set and Map of JavaScript: a Set is a sequence without *)
(* repetition, a Map a sequence of entries [k, v] with distinct keys.       *)

SetHas(s, x) == \E n \in 1..Len(s) : s[n] = x

SetAdd(s, x) == IF SetHas(s, x) THEN s ELSE Append(s, x)

MapHas(m, k) == \E n \in 1..Len(m) : m[n].k = k

MapGet(m, k) == m[CHOOSE n \in 1..Len(m) : m[n].k = k].v

\* m.set(k, v): a present key keeps its place and takes the new value
MapSet(m, k, v) ==
    IF MapHas(m, k)
    THEN [n \in 1..Len(m) |-> IF m[n].k = k THEN [k |-> k, v |-> v] ELSE m[n]]
    ELSE Append(m, [k |-> k, v |-> v])

MapKeys(m) == [n \in 1..Len(m) |-> m[n].k]

-----------------------------------------------------------------------------
(* Locations and their texts. *)

\* `${loc.uri}:${loc.range.start.line}:${loc.range.start.character}`
stringifyLocation(loc) ==
    loc.uri \o Colon \o Dec(loc.range.start.line)
            \o Colon \o Dec(loc.range.start.character)

\* `${loc.uri}:${loc.range.start}`
stringifyStringLocation(uri, start) == uri \o Colon \o start

\* `${pos.line}:${pos.col}`
stringifyPosition(pos) == Dec(pos.line) \o Colon \o Dec(pos.col)

\* parseFilePosition throws when the text has fewer than three components
parseFilePositionThrows(value) == Len(Split(value, ":")) < 3

parseFilePosition(value) ==
    LET components == Split(value, ":")
        n == Len(components)
    IN  [uri |-> JoinEmpty(SubSeq(components, 1, n - 2)),
         position |-> [line |-> ParseInt(components[n - 1]),
                       character |-> ParseInt(components[n])]]

parseLocationThrows(start, end) ==
    \/ parseFilePositionThrows(start)
    \/ parseFilePositionThrows(end)
    \/ parseFilePosition(start).uri # parseFilePosition(end).uri

parseLocation(start, end) ==
    [uri |-> parseFilePosition(start).uri,
     range |-> [start |-> parseFilePosition(start).position,
                end |-> parseFilePosition(end).position]]

-----------------------------------------------------------------------------
(* The storage engine. *)

\* The rows of `rows`, each exactly once, smallest first; before[n] is the
\* number of rows smaller than rows[n] under the strict total order of the
\* index scanned (the rows of a table differ in the columns of its UNIQUE
\* index).
SortBy(rows, before) ==
    [n \in 1..Len(rows) |-> rows[CHOOSE m \in 1..Len(rows) : before[m] = n - 1]]

\* SELECT DISTINCT over a scan: a row is returned the first time it is seen.
RECURSIVE Distinct(_)
Distinct(rows) ==
    IF rows = <<>> THEN <<>>
    ELSE LET front == Distinct(SubSeq(rows, 1, Len(rows) - 1))
             last  == rows[Len(rows)]
         IN  SetAdd(front, last)

NoDb == [lines |-> <<>>, symbols |-> <<>>, refs |-> <<>>]

\* JSON.parse(line) throws: the line is no JSON text
Malformed(l) == l.kind = "malformed"

-----------------------------------------------------------------------------
(* Dialect B: writeLSIF of src/src/lsif.ts, up to the call of ffff. *)

\* the sentinel '*buffer*' of line 166
Buffer == <<"*", "b", "u", "f", "f", "e", "r", "*">>

Unknown == "<unknown>"

\* lines 160-174: lines become 0-based, '*buffer*' names the source file
RebaseRecord(l) ==
    [l EXCEPT !.start.line = Minus(l.start.line, 1),
              !.end.line = Minus(l.end.line, 1),
              !.definition.pos.line = Minus(l.definition.pos.line, 1),
              !.definition.file = IF l.definition.file = Buffer THEN l.src
                                  ELSE l.definition.file]

\* lines 176-183
RowOfRecord(l) ==
    [file |-> l.src,
     start |-> stringifyPosition(l.start),
     end |-> stringifyPosition(l.end),
     deffile |-> l.definition.file,
     defstart |-> stringifyPosition(l.definition.pos),
     type |-> IF l.type = "" THEN Unknown ELSE l.type]

\* lines 153-183: the rows one input yields, in order
RECURSIVE RowsOfLines(_)
RowsOfLines(ls) ==
    IF ls = <<>> THEN <<>>
    ELSE LET l == Head(ls)
         IN  IF l.kind # "record" THEN RowsOfLines(Tail(ls))
             ELSE LET r == RebaseRecord(l)
                  IN  IF r.definition.file # <<>> /\ r.definition.file[1] = "/"
                      THEN RowsOfLines(Tail(ls))
                      ELSE <<RowOfRecord(r)>> \o RowsOfLines(Tail(ls))

\* INSERT OR REPLACE under UNIQUE (file, start, end): the row in conflict is
\* deleted and the new row gets the next rowid
InsertOrReplace(table, row) ==
    SelectSeq(table, LAMBDA r : ~(r.file = row.file /\ r.start = row.start
                                    /\ r.end = row.end))
        \o <<row>>

RECURSIVE InsertMany(_, _)
InsertMany(table, rows) ==
    IF rows = <<>> THEN table
    ELSE InsertMany(InsertOrReplace(table, Head(rows)), Tail(rows))

\* the order of sqlite_autoindex_lines_1
LinesIndexLess(r, q) ==
    \/ TextLess(r.file, q.file)
    \/ r.file = q.file /\ TextLess(r.start, q.start)
    \/ r.file = q.file /\ r.start = q.start /\ TextLess(r.end, q.end)

ScanLines(table) ==
    IF scan = "index"
    THEN SortBy(table, [n \in 1..Len(table) |->
                Cardinality({m \in 1..Len(table) :
                                LinesIndexLess(table[m], table[n])})])
    ELSE table

\* line 211
SelectRangesB(table) ==
    LET own == ScanLines(table)
    IN  [n \in 1..Len(own) |->
            [file |-> own[n].file, start |-> own[n].start, end |-> own[n].end]]
        \o Distinct([n \in 1..Len(table) |->
            [file |-> table[n].deffile, start |-> table[n].defstart,
             end |-> table[n].defstart]])

\* line 230
SelectLinksB(table) ==
    LET rows == ScanLines(table)
    IN  Distinct([n \in 1..Len(rows) |->
            [file |-> rows[n].file, start |-> rows[n].start,
             deffile |-> rows[n].deffile, defstart |-> rows[n].defstart,
             type |-> rows[n].type]])

EmptyIndex ==
    [docs |-> <<>>, rangesByDoc |-> <<>>, locByRange |-> <<>>,
     refsByDef |-> <<>>, hoverByDef |-> <<>>, threw |-> FALSE]

\* lines 209-226
RECURSIVE CollectB(_, _)
CollectB(rows, acc) ==
    IF rows = <<>> \/ acc.threw THEN acc
    ELSE LET hmm    == Head(rows)
             ranges == IF MapHas(acc.rangesByDoc, hmm.file)
                       THEN MapGet(acc.rangesByDoc, hmm.file) ELSE <<>>
             start  == stringifyStringLocation(hmm.file, hmm.start)
             endTxt == hmm.file \o Colon \o hmm.end
         IN  IF parseLocationThrows(start, endTxt)
             THEN [acc EXCEPT !.docs = SetAdd(acc.docs, hmm.file),
                              !.rangesByDoc = MapSet(acc.rangesByDoc, hmm.file,
                                                     SetAdd(ranges, start)),
                              !.threw = TRUE]
             ELSE CollectB(Tail(rows),
                    [acc EXCEPT !.docs = SetAdd(acc.docs, hmm.file),
                                !.rangesByDoc = MapSet(acc.rangesByDoc, hmm.file,
                                                       SetAdd(ranges, start)),
                                !.locByRange = MapSet(acc.locByRange, start,
                                                      parseLocation(start, endTxt))])

\* LinkB with the hover of a definition written once: the first row wins
RECURSIVE LinkBFirstHover(_, _)
LinkBFirstHover(rows, acc) ==
    IF rows = <<>> \/ acc.threw THEN acc
    ELSE LET hmm         == Head(rows)
             therefstart == stringifyStringLocation(hmm.file, hmm.start)
             thedefstart == stringifyStringLocation(hmm.deffile, hmm.defstart)
             refs        == IF MapHas(acc.refsByDef, thedefstart)
                            THEN MapGet(acc.refsByDef, thedefstart) ELSE <<>>
         IN  LinkBFirstHover(Tail(rows),
                [acc EXCEPT !.refsByDef = MapSet(acc.refsByDef, thedefstart,
                                                 SetAdd(refs, therefstart)),
                            !.hoverByDef = IF MapHas(acc.hoverByDef, thedefstart)
                                           THEN acc.hoverByDef
                                           ELSE MapSet(acc.hoverByDef, thedefstart,
                                                       hmm.type)])

\* lines 228-246
RECURSIVE LinkB(_, _)
LinkB(rows, acc) ==
    IF rows = <<>> \/ acc.threw THEN acc
    ELSE LET hmm         == Head(rows)
             therefstart == stringifyStringLocation(hmm.file, hmm.start)
             thedefstart == stringifyStringLocation(hmm.deffile, hmm.defstart)
             refs        == IF MapHas(acc.refsByDef, thedefstart)
                            THEN MapGet(acc.refsByDef, thedefstart) ELSE <<>>
         IN  LinkB(Tail(rows),
                [acc EXCEPT !.refsByDef = MapSet(acc.refsByDef, thedefstart,
                                                 SetAdd(refs, therefstart)),
                            !.hoverByDef = MapSet(acc.hoverByDef, thedefstart,
                                                  hmm.type)])

\* lines 127-137: a new database file with an empty table
FreshDbB == NoDb

\* the lines of the files that are read before the first file with a line
\* JSON.parse rejects (each file is inserted in a transaction of its own)
ReadBefore(ls) ==
    SelectSeq(ls, LAMBDA l : \A k \in 1..Len(ls) :
                                Malformed(ls[k]) => TextLess(l.src, ls[k].src))

\* lines 139-185, when JSON.parse throws in one of the files
HalfLoadedDbB ==
    [FreshDbB EXCEPT !.lines = InsertMany(FreshDbB.lines,
                                          RowsOfLines(ReadBefore(inFiles)))]

\* lines 139-185
LoadedDbB == [FreshDbB EXCEPT !.lines = InsertMany(FreshDbB.lines, RowsOfLines(inFiles))]

\* lines 209-246
IndexB(table) == LinkB(SelectLinksB(table), CollectB(SelectRangesB(table), EmptyIndex))

-----------------------------------------------------------------------------
(* Dialect A: writeLSIF of src/unnamed/part_003, up to collectAndEmit. *)

\* A value bound to an INTEGER column: the text of a numeral is stored as its
\* number (the inputs of the model are numerals).
IntegerColumn(text) == ParseInt(text)

\* range.split(':')[1] is undefined, or the end column is (NOT NULL)
RangeTextThrows(range) ==
    \/ Len(Split(range, ":")) < 2
    \/ Len(Split(Split(range, ":")[2], "-")) < 2

\* lines 157-159 and 167-169
RangeColumns(range) ==
    [line |-> IntegerColumn(Split(range, ":")[1]),
     startcol |-> IntegerColumn(Split(Split(range, ":")[2], "-")[1]),
     endcol |-> IntegerColumn(Split(Split(range, ":")[2], "-")[2])]

\* line 154: INSERT under PRIMARY KEY id and UNIQUE (deffile, defline,
\* defstartcol, defendcol); a conflict throws
SymbolRunThrows(table, row) ==
    \E n \in 1..Len(table) :
        \/ table[n].id = row.id
        \/ /\ table[n].deffile = row.deffile
           /\ table[n].defline = row.defline
           /\ table[n].defstartcol = row.defstartcol
           /\ table[n].defendcol = row.defendcol

\* line 165: INSERT under UNIQUE (reffile, refline, refstartcol, refendcol)
FilerefsRunThrows(table, row) ==
    \E n \in 1..Len(table) :
        /\ table[n].reffile = row.reffile
        /\ table[n].refline = row.refline
        /\ table[n].refstartcol = row.refstartcol
        /\ table[n].refendcol = row.refendcol

\* InsertRefs with every row given the id of the first symbol
RECURSIVE InsertRefsOfFirst(_, _, _)
InsertRefsOfFirst(acc, file, ranges) ==
    IF ranges = <<>> \/ acc.threw THEN acc
    ELSE IF RangeTextThrows(Head(ranges)) THEN [acc EXCEPT !.threw = TRUE]
    ELSE LET c   == RangeColumns(Head(ranges))
             row == [reffile |-> file, refline |-> c.line,
                     refstartcol |-> c.startcol, refendcol |-> c.endcol,
                     sid |-> IF acc.id = 0 THEN 0 ELSE 1]
         IN  IF FilerefsRunThrows(acc.db.refs, row)
             THEN [acc EXCEPT !.threw = TRUE]
             ELSE InsertRefsOfFirst([acc EXCEPT !.db.refs = Append(acc.db.refs, row)],
                                    file, Tail(ranges))

\* lines 163-172: the ranges of one references line
RECURSIVE InsertRefs(_, _, _)
InsertRefs(acc, file, ranges) ==
    IF ranges = <<>> \/ acc.threw THEN acc
    ELSE IF RangeTextThrows(Head(ranges)) THEN [acc EXCEPT !.threw = TRUE]
    ELSE LET c   == RangeColumns(Head(ranges))
             row == [reffile |-> file, refline |-> c.line,
                     refstartcol |-> c.startcol, refendcol |-> c.endcol,
                     sid |-> acc.id]
         IN  IF FilerefsRunThrows(acc.db.refs, row)
             THEN [acc EXCEPT !.threw = TRUE]
             ELSE InsertRefs([acc EXCEPT !.db.refs = Append(acc.db.refs, row)],
                             file, Tail(ranges))

\* lines 127-175: the load transaction
RECURSIVE LoadLinesA(_, _)
LoadLinesA(ls, acc) ==
    IF ls = <<>> \/ acc.threw THEN acc
    ELSE LET l == Head(ls)
         IN  IF Malformed(l) THEN [acc EXCEPT !.threw = TRUE]
             ELSE IF l.kind = "symbol"
             THEN IF RangeTextThrows(l.range) THEN [acc EXCEPT !.threw = TRUE]
                  ELSE LET c   == RangeColumns(l.range)
                           row == [id |-> acc.id + 1, deffile |-> l.file,
                                   defline |-> c.line,
                                   defstartcol |-> c.startcol,
                                   defendcol |-> c.endcol, hover |-> l.hover]
                       IN  IF SymbolRunThrows(acc.db.symbols, row)
                           THEN [acc EXCEPT !.id = acc.id + 1, !.threw = TRUE]
                           ELSE LoadLinesA(Tail(ls),
                                  [acc EXCEPT !.id = acc.id + 1,
                                              !.db.symbols = Append(acc.db.symbols, row)])
             ELSE LoadLinesA(Tail(ls), InsertRefs(acc, l.file, l.ranges))

\* FreshDbA without the unlink: the tables of the run before are kept
StaleDbA == db

\* lines 88-117: the old database file is removed, the tables are created
FreshDbA == NoDb

LoadedA == LoadLinesA(inFiles, [db |-> FreshDbA, id |-> 0, threw |-> FALSE])

\* the order of sqlite_autoindex_symbols_1
SymbolsIndexLess(r, q) ==
    \/ TextLess(r.deffile, q.deffile)
    \/ r.deffile = q.deffile /\ r.defline < q.defline
    \/ r.deffile = q.deffile /\ r.defline = q.defline
        /\ r.defstartcol < q.defstartcol
    \/ r.deffile = q.deffile /\ r.defline = q.defline
        /\ r.defstartcol = q.defstartcol /\ r.defendcol < q.defendcol

\* the order of sqlite_autoindex_refs_1
RefsIndexLess(r, q) ==
    \/ TextLess(r.reffile, q.reffile)
    \/ r.reffile = q.reffile /\ r.refline < q.refline
    \/ r.reffile = q.reffile /\ r.refline = q.refline
        /\ r.refstartcol < q.refstartcol
    \/ r.reffile = q.reffile /\ r.refline = q.refline
        /\ r.refstartcol = q.refstartcol /\ r.refendcol < q.refendcol

\* SelectRangesA with the symbols taken from the join with refs: a symbol
\* without reference yields no range
SelectRangesAReferenced(d) ==
    LET syms == SelectSeq(d.symbols, LAMBDA y :
                    \E q \in 1..Len(d.refs) : d.refs[q].sid = y.id)
    IN  [n \in 1..Len(syms) |->
            [file |-> syms[n].deffile, line |-> syms[n].defline,
             startcol |-> syms[n].defstartcol, endcol |-> syms[n].defendcol]]
        \o [n \in 1..Len(d.refs) |->
            [file |-> d.refs[n].reffile, line |-> d.refs[n].refline,
             startcol |-> d.refs[n].refstartcol, endcol |-> d.refs[n].refendcol]]

\* lines 184-191
SelectRangesA(d) ==
    LET syms == IF scan = "index"
                THEN SortBy(d.symbols, [n \in 1..Len(d.symbols) |->
                        Cardinality({m \in 1..Len(d.symbols) :
                            SymbolsIndexLess(d.symbols[m], d.symbols[n])})])
                ELSE d.symbols
        refs == IF scan = "index"
                THEN SortBy(d.refs, [n \in 1..Len(d.refs) |->
                        Cardinality({m \in 1..Len(d.refs) :
                            RefsIndexLess(d.refs[m], d.refs[n])})])
                ELSE d.refs
    IN  [n \in 1..Len(syms) |->
            [file |-> syms[n].deffile, line |-> syms[n].defline,
             startcol |-> syms[n].defstartcol, endcol |-> syms[n].defendcol]]
        \o [n \in 1..Len(refs) |->
            [file |-> refs[n].reffile, line |-> refs[n].refline,
             startcol |-> refs[n].refstartcol, endcol |-> refs[n].refendcol]]

\* lines 213-219: refs is scanned by rowid, symbols is searched by id
RECURSIVE SelectLinksA(_, _)
SelectLinksA(refs, symbols) ==
    IF refs = <<>> THEN <<>>
    ELSE LET r     == Head(refs)
             match == SelectSeq(symbols, LAMBDA y : y.id = r.sid)
         IN  [n \in 1..Len(match) |->
                [deffile |-> match[n].deffile, defline |-> match[n].defline,
                 defstartcol |-> match[n].defstartcol,
                 defendcol |-> match[n].defendcol,
                 reffile |-> r.reffile, refline |-> r.refline,
                 refstartcol |-> r.refstartcol, refendcol |-> r.refendcol,
                 hover |-> match[n].hover]]
             \o SelectLinksA(Tail(refs), symbols)

\* SingleLine with the line taken as 1-based
SingleLineFromOne(file, line, startcol, endcol) ==
    [uri |-> file,
     range |-> [start |-> [line |-> line - 1, character |-> startcol],
                end |-> [line |-> line - 1, character |-> endcol]]]

\* the location of lines 196-205, 220-229 and 230-239
SingleLine(file, line, startcol, endcol) ==
    [uri |-> file,
     range |-> [start |-> [line |-> line, character |-> startcol],
                end |-> [line |-> line, character |-> endcol]]]

\* lines 192-209
RECURSIVE CollectA(_, _)
CollectA(results, acc) ==
    IF results = <<>> THEN acc
    ELSE LET result == Head(results)
             ranges == IF MapHas(acc.rangesByDoc, result.file)
                       THEN MapGet(acc.rangesByDoc, result.file) ELSE <<>>
             loc    == SingleLine(result.file, result.line, result.startcol,
                                  result.endcol)
             start  == stringifyLocation(loc)
         IN  CollectA(Tail(results),
                [acc EXCEPT !.docs = SetAdd(acc.docs, result.file),
                            !.rangesByDoc = MapSet(acc.rangesByDoc, result.file,
                                                   SetAdd(ranges, start)),
                            !.locByRange = MapSet(acc.locByRange, start, loc)])

\* lines 212-245
RECURSIVE LinkA(_, _)
LinkA(results, acc) ==
    IF results = <<>> THEN acc
    ELSE LET result   == Head(results)
             refstart == stringifyLocation(SingleLine(result.reffile,
                            result.refline, result.refstartcol, result.refendcol))
             defstart == stringifyLocation(SingleLine(result.deffile,
                            result.defline, result.defstartcol, result.defendcol))
             refs     == IF MapHas(acc.refsByDef, defstart)
                         THEN MapGet(acc.refsByDef, defstart) ELSE <<>>
         IN  LinkA(Tail(results),
                [acc EXCEPT !.refsByDef = MapSet(acc.refsByDef, defstart,
                                                 SetAdd(refs, refstart)),
                            !.hoverByDef = MapSet(acc.hoverByDef, defstart,
                                                  result.hover)])

\* lines 177-245
IndexA(d) == LinkA(SelectLinksA(d.refs, d.symbols), CollectA(SelectRangesA(d), EmptyIndex))

-----------------------------------------------------------------------------
(* The items.  An id is [p |-> the literal the code writes, s |-> the text  *)
(* appended to it]; the id of a range vertex is the bare range key.         *)

Id(prefix, text) == [p |-> prefix, s |-> text]

RangeId(key) == Id("", key)

makeMeta ==
    [id |-> Id("meta", <<>>), type |-> "vertex", label |-> "metaData",
     projectRoot |-> "file:///", version |-> "0.4.0",
     positionEncoding |-> "utf-16"]

makeProject ==
    [id |-> Id("project", <<>>), type |-> "vertex", label |-> "project",
     kind |-> "cpp"]

makeProjectBegin ==
    [id |-> Id("projectBegin", <<>>), data |-> Id("project", <<>>),
     type |-> "vertex", label |-> "event", kind |-> "begin", scope |-> "project"]

makeProjectEnd ==
    [id |-> Id("projectEnd", <<>>), data |-> Id("project", <<>>),
     type |-> "vertex", label |-> "event", kind |-> "end", scope |-> "project"]

makeRange(loc) ==
    [id |-> RangeId(stringifyLocation(loc)), type |-> "vertex", label |-> "range",
     start |-> loc.range.start, end |-> loc.range.end]

\* the two items of emitDocsBegin
DocsBeginItems(doc) ==
    << [id |-> Id("document:", doc), type |-> "vertex", label |-> "document",
        uri |-> Id("file:///", doc), languageId |-> "cpp", contents |-> ""],
       [id |-> Id("documentBegin:", doc), data |-> Id("document:", doc),
        type |-> "vertex", label |-> "event", kind |-> "begin",
        scope |-> "document"] >>

\* the two items emitDocsEnd emits for one document
DocsEndItems(doc, ranges) ==
    << [id |-> Id("contains:", doc), type |-> "edge", label |-> "contains",
        outV |-> Id("document:", doc),
        inVs |-> [n \in 1..Len(ranges) |-> RangeId(ranges[n])]],
       [id |-> Id("documentEnd:", doc), data |-> Id("document:", doc),
        type |-> "vertex", label |-> "event", kind |-> "end",
        scope |-> "document"] >>

ProjectContains(ds) ==
    [id |-> Id("projectContains", <<>>), type |-> "edge", label |-> "contains",
     outV |-> Id("project", <<>>),
     inVs |-> [n \in 1..Len(ds) |-> Id("document:", ds[n])]]

-----------------------------------------------------------------------------
(* emitDefsRefsHovers: the items of one definition group. *)

\* a property name that is a canonical array index ("0", "12")
IsArrayIndex(key) ==
    /\ key # <<>>
    /\ \A n \in 1..Len(key) : IsDigit(key[n])
    /\ Dec(ParseInt(key)) = key

\* the keys of the object groupBy builds, in the order toPairs visits them:
\* array indices ascending, then the other keys as they were inserted
GroupKeys(refs) ==
    LET keys == Distinct([n \in 1..Len(refs) |-> parseFilePosition(refs[n]).uri])
        nums == SelectSeq(keys, IsArrayIndex)
    IN  SortBy(nums, [n \in 1..Len(nums) |->
                Cardinality({m \in 1..Len(nums) :
                                ParseInt(nums[m]) < ParseInt(nums[n])})])
        \o SelectSeq(keys, LAMBDA k : ~IsArrayIndex(k))

\* RefsForUri without its test: every group holds all the refs
RefsForUriAll(refs, uri) == refs

\* the refs groupBy files under one key
RefsForUri(refs, uri) ==
    SelectSeq(refs, LAMBDA ref : parseFilePosition(ref).uri = uri)

\* MonikerItems with the package items keyed by package and definition
MonikerItemsPackagePerDef(def, m, kind) ==
    << [id |-> Id("moniker:" \o kind \o ":", def), label |-> "moniker",
        type |-> "vertex", identifier |-> m.moniker, kind |-> kind,
        scheme |-> "cpp"],
       [id |-> Id("monikerEdge:" \o kind \o ":", def), label |-> "moniker",
        type |-> "edge", inV |-> Id("moniker:" \o kind \o ":", def),
        outV |-> Id("resultSet:", def)],
       [id |-> Id("package:" \o m.packageInformation \o ":", def),
        label |-> "packageInformation", type |-> "vertex", manager |-> "cpp",
        name |-> m.packageInformation, version |-> "1.0"],
       [id |-> Id("packageEdge:" \o m.packageInformation \o ":", def),
        label |-> "packageInformation", type |-> "edge",
        inV |-> Id("package:" \o m.packageInformation \o ":", def),
        outV |-> Id("moniker:" \o kind \o ":", def)] >>

\* steps 2.1-2.4 and 11-14
MonikerItems(def, m, kind) ==
    << [id |-> Id("moniker:" \o kind \o ":", def), label |-> "moniker",
        type |-> "vertex", identifier |-> m.moniker, kind |-> kind,
        scheme |-> "cpp"],
       [id |-> Id("monikerEdge:" \o kind \o ":", def), label |-> "moniker",
        type |-> "edge", inV |-> Id("moniker:" \o kind \o ":", def),
        outV |-> Id("resultSet:", def)],
       [id |-> Id("package:" \o m.packageInformation, <<>>),
        label |-> "packageInformation", type |-> "vertex", manager |-> "cpp",
        name |-> m.packageInformation, version |-> "1.0"],
       [id |-> Id("packageEdge:" \o m.packageInformation, <<>>),
        label |-> "packageInformation", type |-> "edge",
        inV |-> Id("package:" \o m.packageInformation, <<>>),
        outV |-> Id("moniker:" \o kind \o ":", def)] >>

\* steps 1 and 2
ResultSetItems(def) ==
    << [id |-> Id("resultSet:", def), label |-> "resultSet", type |-> "vertex"],
       [id |-> Id("next:", def), type |-> "edge", label |-> "next",
        outV |-> RangeId(def), inV |-> Id("resultSet:", def)] >>

\* steps 3, 4 and 5
DefinitionItems(def, defLoc) ==
    << [id |-> Id("definition:", def), label |-> "definitionResult",
        type |-> "vertex"],
       [id |-> Id("textDocument/definition:", def), type |-> "edge",
        label |-> "textDocument/definition", outV |-> Id("resultSet:", def),
        inV |-> Id("definition:", def)],
       [id |-> Id("item:textDocument/definition:", def), type |-> "edge",
        label |-> "item", outV |-> Id("definition:", def),
        inVs |-> <<RangeId(def)>>, document |-> Id("document:", defLoc.uri)] >>

\* the hover items (lines 520-538)
HoverItems(def, hover) ==
    << [id |-> Id("hover:", def), label |-> "hoverResult", type |-> "vertex",
        result |-> [contents |-> hover]],
       [id |-> Id("textDocument/hover:", def), type |-> "edge",
        label |-> "textDocument/hover", outV |-> Id("resultSet:", def),
        inV |-> Id("hover:", def)] >>

\* steps 6 and 7
ReferenceItems(def) ==
    << [id |-> Id("reference:", def), label |-> "referenceResult",
        type |-> "vertex"],
       [id |-> Id("textDocument/references:", def), type |-> "edge",
        label |-> "textDocument/references", outV |-> Id("resultSet:", def),
        inV |-> Id("reference:", def)] >>

\* step 8
DefinitionsItem(def, defLoc) ==
    [id |-> Id("item:textDocument/references:definitions:", def),
     type |-> "edge", label |-> "item", outV |-> Id("reference:", def),
     inVs |-> <<RangeId(def)>>, property |-> "definitions",
     document |-> Id("document:", defLoc.uri)]

\* step 9
NextItems(def, refs) ==
    [n \in 1..Len(refs) |->
        [id |-> Id("next:", refs[n]), type |-> "edge", label |-> "next",
         outV |-> RangeId(refs[n]), inV |-> Id("resultSet:", def)]]

\* step 10
ReferencesItems(def, refs) ==
    LET uris == GroupKeys(refs)
    IN  [n \in 1..Len(uris) |->
            [id |-> Id("item:textDocument/references:references:",
                       def \o Colon \o uris[n]),
             type |-> "edge", label |-> "item", outV |-> Id("reference:", def),
             inVs |-> [m \in 1..Len(RefsForUri(refs, uris[n])) |->
                          RangeId(RefsForUri(refs, uris[n])[m])],
             property |-> "references",
             document |-> Id("document:", uris[n])]]

\* map.get(key) is defined
HasMoniker(map, key) == key \in DOMAIN map

\* hoverByDef.get(def), when truthy
HoverOf(hovers, def) ==
    IF MapHas(hovers, def) /\ MapGet(hovers, def) # "" THEN <<MapGet(hovers, def)>>
    ELSE <<>>

\* GroupItems with step 8 outside its `if (!importMoniker)`
GroupItemsStep8Always(def, refs, defLoc, hovers, imports, exports) ==
    ResultSetItems(def)
    \o (IF HasMoniker(imports, def) THEN MonikerItems(def, imports[def], "import")
        ELSE DefinitionItems(def, defLoc))
    \o (IF HoverOf(hovers, def) # <<>> THEN HoverItems(def, HoverOf(hovers, def)[1])
        ELSE <<>>)
    \o ReferenceItems(def)
    \o <<DefinitionsItem(def, defLoc)>>
    \o NextItems(def, refs)
    \o ReferencesItems(def, refs)
    \o (IF HasMoniker(exports, def) THEN MonikerItems(def, exports[def], "export")
        ELSE <<>>)

\* one turn of the loop of emitDefsRefsHovers (lines 412-636)
GroupItems(def, refs, defLoc, hovers, imports, exports) ==
    ResultSetItems(def)
    \o (IF HasMoniker(imports, def) THEN MonikerItems(def, imports[def], "import")
        ELSE DefinitionItems(def, defLoc))
    \o (IF HoverOf(hovers, def) # <<>> THEN HoverItems(def, HoverOf(hovers, def)[1])
        ELSE <<>>)
    \o ReferenceItems(def)
    \o (IF ~HasMoniker(imports, def) THEN <<DefinitionsItem(def, defLoc)>> ELSE <<>>)
    \o NextItems(def, refs)
    \o ReferencesItems(def, refs)
    \o (IF HasMoniker(exports, def) THEN MonikerItems(def, exports[def], "export")
        ELSE <<>>)

-----------------------------------------------------------------------------
(* The inputs of the model. *)

FileAB == <<"a", "b">>

FileAColonB == <<"a", ":", "b">>

FileB == <<"b">>

FileSlashA == <<"/", "a">>

RecordLine(src, sl, sc, el, ec, dfile, dl, dc, type) ==
    [kind |-> "record", src |-> src,
     start |-> [line |-> sl, col |-> sc], end |-> [line |-> el, col |-> ec],
     definition |-> [file |-> dfile, pos |-> [line |-> dl, col |-> dc]],
     type |-> type]

\* Lines of dialect B (lines and columns as written, lines 1-based): a
\* definition site, a reference in the same file, a reference from a file
\* whose name holds a colon, a record that spans two lines, a second record
\* of an already seen range, a line without `start`, a definition under an
\* absolute path, and lines 10 and 11 of a file.
LinesB ==
    { RecordLine(FileAB, 1, 0, 1, 1, Buffer, 1, 0, "int"),
      RecordLine(FileAB, 2, 0, 2, 3, Buffer, 1, 0, "int"),
      RecordLine(FileAColonB, 2, 0, 2, 2, FileAB, 1, 0, ""),
      RecordLine(FileB, 1, 0, 2, 1, FileAB, 1, 0, "str"),
      RecordLine(FileAB, 1, 0, 1, 1, FileB, 3, 0, "str"),
      [kind |-> "other", src |-> FileAB],
      RecordLine(FileB, 1, 0, 1, 1, FileSlashA, 1, 0, "int"),
      RecordLine(FileB, 11, 0, 11, 1, Buffer, 10, 0, "int") }

Txt0 == <<"0", ":", "0", "-", "1">>
Txt0Long == <<"0", ":", "0", "-", "2">>
Txt1 == <<"1", ":", "0", "-", "3">>
Txt1Long == <<"1", ":", "0", "-", "4">>
Txt2 == <<"2", ":", "0", "-", "1">>

SymbolLine(file, range, hover) ==
    [kind |-> "symbol", file |-> file, range |-> range, hover |-> hover]

ReferencesLine(file, ranges) ==
    [kind |-> "references", file |-> file, ranges |-> ranges]

\* Lines of dialect A; hover "" stands for a symbol without hover.
LinesA ==
    { SymbolLine(FileAB, Txt0, "int"),
      ReferencesLine(FileAB, <<Txt0, Txt1>>),
      ReferencesLine(FileAColonB, <<Txt1>>),
      ReferencesLine(FileB, <<Txt0>>),
      SymbolLine(FileB, Txt2, ""),
      SymbolLine(FileAB, Txt0Long, "str"),
      ReferencesLine(FileAB, <<Txt1Long>>),
      SymbolLine(FileAColonB, Txt1, "str") }

SeqsUpTo(S, n) == UNION {[1..m -> S] : m \in 0..n}

\* glob.sync returns the matched files sorted, and each is read once: the
\* lines of dialect B come file by file, the files in ascending order
FileOrdered(ls) ==
    \A n \in 1..(Len(ls) - 1) :
        ls[n].src = ls[n + 1].src \/ TextLess(ls[n].src, ls[n + 1].src)

InputsB == {ls \in SeqsUpTo(LinesB, MaxLines) : FileOrdered(ls)}

InputsA == SeqsUpTo(LinesA, MaxLines)

\* lines 108-115: writeLSIF passes two empty maps
NoMonikers == [import |-> <<>>, export |-> <<>>]

\* The maps emitDefsRefsHovers takes as importMonikerByRange and
\* exportMonikerByRange (lines 403-410), populated: writeLSIF itself never
\* fills them.  The keys are definition ranges of the inputs below.
KeyAB00 == <<"a", "b", ":", "0", ":", "0">>

KeyB20 == <<"b", ":", "2", ":", "0">>

KeyB90 == <<"b", ":", "9", ":", "0">>

Packages == {"p", "q"}

MonikerOf(package) == [moniker |-> "sym", packageInformation |-> package]

MonikerArgs ==
    { NoMonikers,
      [import |-> (KeyAB00 :> MonikerOf("p")), export |-> <<>>],
      [import |-> <<>>,
       export |-> (KeyAB00 :> MonikerOf("p")) @@ (KeyB20 :> MonikerOf("p"))],
      [import |-> <<>>,
       export |-> (KeyAB00 :> MonikerOf("p")) @@ (KeyB20 :> MonikerOf("q"))],
      [import |-> (KeyAB00 :> MonikerOf("p")),
       export |-> (KeyAB00 :> MonikerOf("q")) @@ (KeyB20 :> MonikerOf("q"))],
      [import |-> (KeyAB00 :> MonikerOf("p")) @@ (KeyB20 :> MonikerOf("p")),
       export |-> (KeyB90 :> MonikerOf("p"))],
      [import |-> <<>>,
       export |-> (KeyAB00 :> MonikerOf("p")) @@ (KeyB20 :> MonikerOf("p"))
                  @@ (KeyB90 :> MonikerOf("p"))] }

\* inputs whose definition ranges are the keys above
MonikerInputsB ==
    {ls \in SeqsUpTo({ RecordLine(FileAB, 1, 0, 1, 1, Buffer, 1, 0, "int"),
                       RecordLine(FileAB, 2, 0, 2, 3, Buffer, 1, 0, "int"),
                       RecordLine(FileAB, 1, 0, 1, 1, FileB, 3, 0, "str"),
                       RecordLine(FileB, 11, 0, 11, 1, Buffer, 10, 0, "int") },
                     MaxLines) : FileOrdered(ls)}

MonikerInputsA ==
    SeqsUpTo({ SymbolLine(FileAB, Txt0, "int"),
               ReferencesLine(FileAB, <<Txt0, Txt1>>),
               ReferencesLine(FileB, <<Txt0>>),
               SymbolLine(FileB, Txt2, "") }, MaxLines)

\* a line of an input file that is no JSON text
MalformedLine(src) == [kind |-> "malformed", src |-> src]

\* inputs that load, inputs that break a UNIQUE index (dialect A) and inputs
\* with a line that is no JSON text, first or after lines that load
LoadInputsB ==
    {ls \in SeqsUpTo({ RecordLine(FileAB, 1, 0, 1, 1, Buffer, 1, 0, "int"),
                       RecordLine(FileAB, 2, 0, 2, 3, Buffer, 1, 0, "int"),
                       RecordLine(FileB, 11, 0, 11, 1, Buffer, 10, 0, "int"),
                       MalformedLine(FileAB),
                       MalformedLine(FileB) },
                     MaxLines) : FileOrdered(ls)}

LoadInputsA ==
    SeqsUpTo({ SymbolLine(FileAB, Txt0, "int"),
               ReferencesLine(FileAB, <<Txt0, Txt1>>),
               ReferencesLine(FileB, <<Txt0>>),
               SymbolLine(FileB, Txt2, ""),
               MalformedLine(FileAB) }, MaxLines)

-----------------------------------------------------------------------------
(* The run. *)

At(p, n, m) == [pc |-> p, i |-> n, j |-> m]

\* Enter with the loop over locByRange placed after emitDefsRefsHovers
RECURSIVE EnterRangesLast(_, _, _)
EnterRangesLast(p, n, ix) ==
    CASE p = "docsBegin" ->
            IF n <= Len(ix.docs) THEN At(p, n, 1) ELSE EnterRangesLast("defs", 1, ix)
      [] p = "defs" ->
            IF n <= Len(ix.refsByDef) THEN At(p, n, 1)
            ELSE EnterRangesLast("ranges", 1, ix)
      [] p = "ranges" ->
            IF n <= Len(ix.locByRange) THEN At(p, n, 1)
            ELSE EnterRangesLast("docsEnd", 1, ix)
      [] p = "docsEnd" ->
            IF n <= Len(ix.docs) THEN At(p, n, 1) ELSE At("projectContains", 1, 1)

\* The next await of ffff / collectAndEmit from the head of the loop `p` at
\* its turn number n: a loop that is over falls through to the next one.
RECURSIVE Enter(_, _, _)
Enter(p, n, ix) ==
    CASE p = "docsBegin" ->
            IF n <= Len(ix.docs) THEN At(p, n, 1) ELSE Enter("ranges", 1, ix)
      [] p = "ranges" ->
            IF n <= Len(ix.locByRange) THEN At(p, n, 1) ELSE Enter("defs", 1, ix)
      [] p = "defs" ->
            IF n <= Len(ix.refsByDef) THEN At(p, n, 1) ELSE Enter("docsEnd", 1, ix)
      [] p = "docsEnd" ->
            IF n <= Len(ix.docs) THEN At(p, n, 1) ELSE At("projectContains", 1, 1)

Index ==
    [docs |-> docs, rangesByDoc |-> rangesByDoc, locByRange |-> locByRange,
     refsByDef |-> refsByDef, hoverByDef |-> hoverByDef]

Goto(pos) == pc' = pos.pc /\ i' = pos.i /\ j' = pos.j

\* output.push(item) of the sink of the tests
Emit(item) == out' = Append(out, item)

\* JSON.stringify(item) + '\n'
Line(item) == [json |-> item, eol |-> "\n"]

SinkState == <<out, calls, pending, resume, outFile>>

Throw == pc' = "failed" /\ error' = "Error" /\ UNCHANGED <<i, j, SinkState>>

\* `await emit(item)` without its await: the engine goes on at once
AwaitNot(item, pos) ==
    /\ calls' = Append(calls, item)
    /\ CASE sink = "array" ->
                /\ Emit(item) /\ Goto(pos)
                /\ UNCHANGED <<pending, resume, error, outFile>>
         [] sink = "file" ->
                \/ /\ outFile' = Append(outFile, Line(item))
                   /\ Emit(item) /\ Goto(pos)
                   /\ UNCHANGED <<pending, resume, error>>
                \/ /\ pc' = "failed" /\ error' = "SinkError"
                   /\ UNCHANGED <<i, j, out, pending, resume, outFile>>
         [] sink = "suspending" ->
                /\ pending' = Append(pending, item)
                /\ Goto(pos)
                /\ UNCHANGED <<out, resume, error, outFile>>

\* `await emit(item)`, the engine going on at `pos`.  The sink of the tests
\* (part_000, lines 13-17) takes the item during the call; the sink of the
\* command line (part_002, lines 36-40) appends a line to the output file
\* during the call, or appendFileSync throws and the promise is rejected; a
\* suspending sink settles its promise later, and till then the engine waits.
Await(item, pos) ==
    /\ calls' = Append(calls, item)
    /\ CASE sink = "array" ->
                /\ Emit(item) /\ Goto(pos)
                /\ UNCHANGED <<pending, resume, error, outFile>>
         [] sink = "file" ->
                \/ /\ outFile' = Append(outFile, Line(item))
                   /\ Emit(item) /\ Goto(pos)
                   /\ UNCHANGED <<pending, resume, error>>
                \/ /\ pc' = "failed" /\ error' = "SinkError"
                   /\ UNCHANGED <<i, j, out, pending, resume, outFile>>
         [] sink = "suspending" ->
                /\ pending' = Append(pending, item)
                /\ resume' = pos
                /\ pc' = "await"
                /\ UNCHANGED <<i, j, out, error, outFile>>

Input == <<dialect, scan, inFiles, monikerArg, sink>>

Maps == <<docs, rangesByDoc, hoverByDef, refsByDef, locByRange,
          importMonikerByRange, exportMonikerByRange>>

\* SetMaps with the call of ffff placed before the loop that links defs and
\* refs
SetMapsBeforeLink(ix) ==
    /\ docs' = ix.docs
    /\ rangesByDoc' = ix.rangesByDoc
    /\ locByRange' = ix.locByRange
    /\ refsByDef' = <<>>
    /\ hoverByDef' = <<>>
    /\ importMonikerByRange' = monikerArg.import
    /\ exportMonikerByRange' = monikerArg.export

\* the maps writeLSIF has built when it calls ffff (lines 251-262)
SetMaps(ix) ==
    /\ docs' = ix.docs
    /\ rangesByDoc' = ix.rangesByDoc
    /\ locByRange' = ix.locByRange
    /\ refsByDef' = ix.refsByDef
    /\ hoverByDef' = ix.hoverByDef
    /\ importMonikerByRange' = monikerArg.import
    /\ exportMonikerByRange' = monikerArg.export

\* an output file left by an earlier run
StaleFile == <<Line(makeMeta), Line(makeProject)>>

InitWith(inputsA, inputsB, monikers, sinks) ==
    /\ dialect \in {"A", "B"}
    /\ scan \in {"index", "rowid"}
    /\ inFiles \in IF dialect = "A" THEN inputsA ELSE inputsB
    /\ monikerArg \in monikers
    /\ sink \in sinks
    /\ db = NoDb
    /\ pc = IF sink = "file" THEN "main" ELSE "load"
    /\ i = 1 /\ j = 1
    /\ docs = <<>> /\ rangesByDoc = <<>> /\ hoverByDef = <<>>
    /\ refsByDef = <<>> /\ locByRange = <<>>
    /\ importMonikerByRange = <<>> /\ exportMonikerByRange = <<>>
    /\ out = <<>>
    /\ run = 1 /\ prevOut = <<>>
    /\ calls = <<>> /\ pending = <<>>
    /\ resume = At("load", 1, 1)
    /\ error = ""
    /\ outFile \in IF sink = "file" THEN {<<>>, StaleFile} ELSE {<<>>}
    /\ exit = 0

Init == InitWith(InputsA, InputsB, {NoMonikers}, {"array"})

\* LoadB without the test of inFiles.length (lines 118-120)
LoadBAnyGlob ==
    /\ pc = "load" /\ dialect = "B"
    /\ IF \E k \in 1..Len(inFiles) : Malformed(inFiles[k])
       THEN db' = HalfLoadedDbB /\ Throw /\ UNCHANGED Maps
       ELSE /\ db' = LoadedDbB
            /\ LET ix == IndexB(LoadedDbB.lines)
               IN  IF ix.threw THEN Throw /\ UNCHANGED Maps
                   ELSE SetMaps(ix) /\ Goto(At("meta", 1, 1))
                        /\ UNCHANGED <<SinkState, error>>
    /\ UNCHANGED <<Input, run, prevOut, exit>>

\* writeLSIF of lsif.ts up to its first await (lines 103-251)
LoadB ==
    /\ pc = "load" /\ dialect = "B"
    /\ IF inFiles = <<>>
       THEN Throw /\ UNCHANGED <<db, Maps>>
       ELSE IF \E k \in 1..Len(inFiles) : Malformed(inFiles[k])
       THEN db' = HalfLoadedDbB /\ Throw /\ UNCHANGED Maps
       ELSE /\ db' = LoadedDbB
            /\ LET ix == IndexB(LoadedDbB.lines)
               IN  IF ix.threw THEN Throw /\ UNCHANGED Maps
                   ELSE SetMaps(ix) /\ Goto(At("meta", 1, 1)) /\ UNCHANGED <<SinkState, error>>
    /\ UNCHANGED <<Input, run, prevOut, exit>>

\* writeLSIF of part_003 up to its first await (lines 74-248)
LoadA ==
    /\ pc = "load" /\ dialect = "A"
    /\ IF LoadedA.threw
       THEN db' = FreshDbA /\ Throw /\ UNCHANGED Maps
       ELSE /\ db' = LoadedA.db
            /\ SetMaps(IndexA(LoadedA.db))
            /\ Goto(At("meta", 1, 1)) /\ UNCHANGED <<SinkState, error>>
    /\ UNCHANGED <<Input, run, prevOut, exit>>

EmitMeta ==
    /\ pc = "meta"
    /\ Await(makeMeta,
             At("project", 1, 1))
    /\ UNCHANGED <<Input, db, Maps, run, prevOut, exit>>

EmitProject ==
    /\ pc = "project"
    /\ Await(makeProject,
             At("projectBegin", 1, 1))
    /\ UNCHANGED <<Input, db, Maps, run, prevOut, exit>>

EmitProjectBegin ==
    /\ pc = "projectBegin"
    /\ Await(makeProjectBegin,
             Enter("docsBegin", 1, Index))
    /\ UNCHANGED <<Input, db, Maps, run, prevOut, exit>>

\* one await of emitDocsBegin (lines 299-301, 696-711)
EmitDocsBegin ==
    /\ pc = "docsBegin"
    /\ Await(DocsBeginItems(docs[i])[j],
             IF j < 2 THEN At("docsBegin", i, j + 1)
                     ELSE Enter("docsBegin", i + 1, Index))
    /\ UNCHANGED <<Input, db, Maps, run, prevOut, exit>>

\* one turn of the loop over locByRange (lines 303-313)
EmitRange ==
    /\ pc = "ranges"
    /\ LET range == MapKeys(locByRange)[i]
       IN  IF ~MapHas(locByRange, range) THEN Throw
           ELSE /\ Await(makeRange(MapGet(locByRange, range)),
                         Enter("ranges", i + 1, Index))
    /\ UNCHANGED <<Input, db, Maps, run, prevOut, exit>>

\* one await of emitDefsRefsHovers (lines 412-636)
EmitDefsRefsHovers ==
    /\ pc = "defs"
    /\ LET def  == refsByDef[i].k
           refs == refsByDef[i].v
       IN  IF ~MapHas(locByRange, def) THEN Throw
           ELSE LET items == GroupItems(def, refs, MapGet(locByRange, def),
                                        hoverByDef, importMonikerByRange,
                                        exportMonikerByRange)
                IN  /\ Await(items[j],
                             IF j < Len(items) THEN At("defs", i, j + 1)
                                     ELSE Enter("defs", i + 1, Index))
    /\ UNCHANGED <<Input, db, Maps, run, prevOut, exit>>

\* one await of emitDocsEnd (lines 648-674)
EmitDocsEnd ==
    /\ pc = "docsEnd"
    /\ IF ~MapHas(rangesByDoc, docs[i]) THEN Throw
       ELSE /\ Await(DocsEndItems(docs[i], MapGet(rangesByDoc, docs[i]))[j],
                     IF j < 2 THEN At("docsEnd", i, j + 1)
                             ELSE Enter("docsEnd", i + 1, Index))
    /\ UNCHANGED <<Input, db, Maps, run, prevOut, exit>>

EmitProjectContains ==
    /\ pc = "projectContains"
    /\ Await(ProjectContains(docs),
             At("projectEnd", 1, 1))
    /\ UNCHANGED <<Input, db, Maps, run, prevOut, exit>>

EmitProjectEnd ==
    /\ pc = "projectEnd"
    /\ Await(makeProjectEnd,
             At("done", 1, 1))
    /\ UNCHANGED <<Input, db, Maps, run, prevOut, exit>>

Next ==
    \/ LoadA \/ LoadB
    \/ EmitMeta \/ EmitProject \/ EmitProjectBegin
    \/ EmitDocsBegin \/ EmitRange \/ EmitDefsRefsHovers \/ EmitDocsEnd
    \/ EmitProjectContains \/ EmitProjectEnd

Spec == Init /\ [][Next]_vars

\* writeLSIF is called again on the same input files, after the run before
\* has returned or thrown: the maps are new (lines 103-115), the database
\* file of the run before is still on disk.
Rerun ==
    /\ pc \in {"done", "failed"}
    /\ run < MaxRuns
    /\ run' = run + 1
    /\ prevOut' = out
    /\ out' = <<>>
    /\ sink = "array"
    /\ Goto(At("load", 1, 1))
    /\ docs' = <<>> /\ rangesByDoc' = <<>> /\ hoverByDef' = <<>>
    /\ refsByDef' = <<>> /\ locByRange' = <<>>
    /\ importMonikerByRange' = <<>> /\ exportMonikerByRange' = <<>>
    /\ calls' = <<>> /\ error' = ""
    /\ UNCHANGED <<Input, db, pending, resume, outFile, exit>>

NextRerun == Next \/ Rerun

SpecRerun == Init /\ [][NextRerun]_vars

\* MainUnlink without its unlinkSync
MainNoUnlink ==
    /\ pc = "main"
    /\ pc' = "load"
    /\ UNCHANGED <<Input, db, Maps, i, j, out, run, prevOut, calls, pending,
                   resume, error, exit, outFile>>

\* Inputs with a line that is no number: in the JSON of dialect B a string
\* such as "x" stands where a number is expected, and NaN is what `- 1`
\* (lines 162-164) makes of it.
NonNumericInputsB ==
    {ls \in SeqsUpTo({ RecordLine(FileAB, 1, 0, 1, 1, Buffer, 1, 0, "int"),
                       RecordLine(FileAB, NaN, 0, NaN, 1, Buffer, 1, 0, "int"),
                       RecordLine(FileAB, 2, 0, 2, 3, Buffer, 1, 0, "int"),
                       RecordLine(FileB, 1, 0, 1, 1, FileAB, NaN, 0, "str") },
                     MaxLines) : FileOrdered(ls)}

InitNonNumeric ==
    InitWith(MonikerInputsA, NonNumericInputsB, {NoMonikers}, {"array"})

SpecNonNumeric == InitNonNumeric /\ [][Next]_vars

\* main of the command line (part_001, part_002, lines 26-30): the output
\* file of an earlier run is removed; that there is none is ignored
MainUnlink ==
    /\ pc = "main"
    /\ outFile' = <<>>
    /\ pc' = "load"
    /\ UNCHANGED <<Input, db, Maps, i, j, out, run, prevOut, calls, pending,
                   resume, error, exit>>

\* main of the command line (lines 42-45): writeLSIF rejected
MainCatch ==
    /\ pc = "failed" /\ sink = "file"
    /\ exit' = 1
    /\ pc' = "exited"
    /\ UNCHANGED <<Input, db, Maps, i, j, SinkState, run, prevOut, error>>

\* the suspending sink resolves a promise: the engine waiting for it goes on
SinkResolves ==
    /\ pending # <<>>
    /\ \E n \in 1..Len(pending) :
           /\ out' = Append(out, pending[n])
           /\ pending' = SubSeq(pending, 1, n - 1)
                            \o SubSeq(pending, n + 1, Len(pending))
    /\ IF pc = "await" THEN Goto(resume) ELSE UNCHANGED <<pc, i, j>>
    /\ UNCHANGED <<Input, db, Maps, run, prevOut, exit, calls, resume, error,
                   outFile>>

\* SinkRejects with the rejection caught: the engine goes on with the next item
SinkRejectsCaught ==
    /\ pc = "await" /\ pending # <<>>
    /\ pending' = <<>>
    /\ error' = "SinkError"
    /\ Goto(resume)
    /\ UNCHANGED <<Input, db, Maps, run, prevOut, exit, out, calls, resume,
                   outFile>>

\* the suspending sink rejects the promise the engine waits for: the await
\* throws, and nothing in ffff or writeLSIF catches it
SinkRejects ==
    /\ pc = "await" /\ pending # <<>>
    /\ pending' = <<>>
    /\ error' = "SinkError"
    /\ pc' = "failed"
    /\ UNCHANGED <<Input, db, Maps, i, j, run, prevOut, exit, out, calls,
                   resume, outFile>>

NextSink == Next \/ MainUnlink \/ MainCatch \/ SinkResolves \/ SinkRejects

\* writeLSIF called by the command line, and with a sink that suspends
InitSink ==
    InitWith(MonikerInputsA, MonikerInputsB, {NoMonikers}, {"file", "suspending"})

SpecSink == InitSink /\ [][NextSink]_vars

\* emitDefsRefsHovers with populated moniker maps
InitMoniker == InitWith(MonikerInputsA, MonikerInputsB, MonikerArgs, {"array"})

SpecMoniker == InitMoniker /\ [][Next]_vars

\* writeLSIF on inputs of which some fail to load
InitLoad == InitWith(LoadInputsA, LoadInputsB, {NoMonikers}, {"array"})

SpecLoad == InitLoad /\ [][Next]_vars

-----------------------------------------------------------------------------
(* Reading the emitted stream. *)

Emitted == 1..Len(out)

IsVertex(it, label) == it.type = "vertex" /\ it.label = label

IsEdge(it, label) == it.type = "edge" /\ it.label = label

\* the ids an edge names as its targets
Targets(it) ==
    IF "inVs" \in DOMAIN it THEN {it.inVs[n] : n \in 1..Len(it.inVs)}
    ELSE {it.inV}

\* an item edge tagged `references` / `definitions`
IsTagged(it, tag) ==
    IsEdge(it, "item") /\ "property" \in DOMAIN it /\ it.property = tag

\* the loop of emitDefsRefsHovers has finished its turn number n
GroupDone(n) ==
    \/ pc \in {"docsEnd", "projectContains", "projectEnd", "done"}
    \/ pc = "defs" /\ i > n

Groups == 1..Len(refsByDef)

-----------------------------------------------------------------------------
(* C1: in one run no two emitted items have the same id -- also when a      *)
(* fact's definition range is its own range, and when a range is the        *)
(* definition range of one group and a referencing range of a group.        *)
(* The code emits `next:<def>` in step 2 and `next:<ref>` in step 9, so a   *)
(* definition that is among its own references yields the same id twice.    *)
C1_UniqueIds ==
    \A m, n \in Emitted : m # n => out[m].id # out[n].id

-----------------------------------------------------------------------------
(* C2: every range id that an emitted edge names as outV, inV or in inVs is *)
(* the id of a range vertex emitted strictly earlier.  In dialect B the     *)
(* range vertex takes its id from the parsed location, whose uri lost the   *)
(* colons of the file name, while the edges name the unparsed key.          *)
C2_RangeEndpointsEmittedEarlier ==
    \A n \in Emitted :
        out[n].type = "edge" =>
            \A e \in Targets(out[n]) \cup {out[n].outV} :
                e.p = "" =>
                    \E m \in 1..(n - 1) : IsVertex(out[m], "range") /\ out[m].id = e

-----------------------------------------------------------------------------
\* the `references` item edges emitted for the group of turn n
ReferenceEdges(n) ==
    {m \in Emitted : /\ IsTagged(out[m], "references")
                     /\ out[m].outV = Id("reference:", refsByDef[n].k)}

(* C3: for every definition group with reference set R, the inVs of the     *)
(* `references` item edges emitted for it are pairwise disjoint, list no    *)
(* range twice, and their union is exactly R.                               *)
C3_ReferencesPartitioned ==
    \A n \in Groups :
        GroupDone(n) =>
            /\ \A m \in ReferenceEdges(n) :
                   \A a, b \in 1..Len(out[m].inVs) :
                       a # b => out[m].inVs[a] # out[m].inVs[b]
            /\ \A m, k \in ReferenceEdges(n) :
                   m # k => Targets(out[m]) \cap Targets(out[k]) = {}
            /\ UNION {Targets(out[m]) : m \in ReferenceEdges(n)}
                   = {RangeId(refsByDef[n].v[k]) : k \in 1..Len(refsByDef[n].v)}

\* a finished group whose three references lie in two documents
C3_Witness ==
    \E n \in Groups :
        /\ GroupDone(n)
        /\ Cardinality(ReferenceEdges(n)) >= 2
        /\ Len(refsByDef[n].v) >= 3

-----------------------------------------------------------------------------
(* C4: for every `references` item edge of a finished run, the `document`   *)
(* field is the id of an emitted document vertex and every range of its     *)
(* inVs is listed in the contains edge of that document -- for any file     *)
(* name, also one that contains ':'.  The code derives the document of the  *)
(* edge from parseFilePosition, which joins the components of the file name *)
(* without the colons.                                                      *)
C4_ReferenceEdgeInOneDocument ==
    pc = "done" =>
        \A n \in Emitted :
            IsTagged(out[n], "references") =>
                /\ \E d \in Emitted : /\ IsVertex(out[d], "document")
                                      /\ out[d].id = out[n].document
                /\ \E c \in Emitted : /\ IsEdge(out[c], "contains")
                                      /\ out[c].outV = out[n].document
                                      /\ Targets(out[n]) \subseteq Targets(out[c])

-----------------------------------------------------------------------------
\* a record of dialect B whose start and end lie on different lines
SpansLines(l) == l.kind = "record" /\ l.start.line # l.end.line

(* C5: every emitted range vertex has start.line = end.line, and an input   *)
(* with a record whose start and end lie on different lines fails before    *)
(* the first item is emitted.  Dialect B parses start and end apart and     *)
(* never compares their lines.                                              *)
C5_SingleLineRanges ==
    /\ \A n \in Emitted :
           IsVertex(out[n], "range") => out[n].start.line = out[n].end.line
    /\ (dialect = "B" /\ \E k \in 1..Len(inFiles) : SpansLines(inFiles[k]))
           => out = <<>> /\ pc \in {"load", "failed"}

-----------------------------------------------------------------------------
\* document name, then line, then column
KeyLess(a, b) ==
    LET x == parseFilePosition(a)
        y == parseFilePosition(b)
    IN  \/ TextLess(x.uri, y.uri)
        \/ x.uri = y.uri /\ x.position.line < y.position.line
        \/ x.uri = y.uri /\ x.position.line = y.position.line
            /\ x.position.character < y.position.character

(* C6: documents, range vertices, definition groups, the per-document       *)
(* reference item edges of a group and the inVs of item and contains edges  *)
(* are emitted in ascending order (document name, then line, then column),  *)
(* whatever the order of the facts.  The code sorts nothing: it emits in    *)
(* the order of the rows of its queries and of insertion into its maps.     *)
C6_SortedEmission ==
    /\ \A m, n \in Emitted :
           (m < n /\ IsVertex(out[m], "document") /\ IsVertex(out[n], "document"))
               => TextLess(out[m].uri.s, out[n].uri.s)
    /\ \A m, n \in Emitted :
           (m < n /\ IsVertex(out[m], "range") /\ IsVertex(out[n], "range"))
               => KeyLess(out[m].id.s, out[n].id.s)
    /\ \A m, n \in Emitted :
           (m < n /\ IsVertex(out[m], "resultSet") /\ IsVertex(out[n], "resultSet"))
               => KeyLess(out[m].id.s, out[n].id.s)
    /\ \A m, n \in Emitted :
           (m < n /\ IsTagged(out[m], "references") /\ IsTagged(out[n], "references")
                  /\ out[m].outV = out[n].outV)
               => TextLess(out[m].document.s, out[n].document.s)
    /\ \A n \in Emitted :
           (IsEdge(out[n], "item") \/ (IsEdge(out[n], "contains")
                                        /\ out[n].outV.p = "document:"))
               => \A a, b \in 1..Len(out[n].inVs) :
                      a < b => KeyLess(out[n].inVs[a].s, out[n].inVs[b].s)
    /\ \A n \in Emitted :
           (IsEdge(out[n], "contains") /\ out[n].outV.p = "project")
               => \A a, b \in 1..Len(out[n].inVs) :
                      a < b => TextLess(out[n].inVs[a].s, out[n].inVs[b].s)

-----------------------------------------------------------------------------
IsEvent(it, kind, scope) ==
    IsVertex(it, "event") /\ it.kind = kind /\ it.scope = scope

GroupLabels ==
    {"resultSet", "next", "moniker", "packageInformation", "definitionResult",
     "textDocument/definition", "item", "hoverResult", "textDocument/hover",
     "referenceResult", "textDocument/references"}

\* the phase of the stream an item belongs to
Phase(it) ==
    CASE IsVertex(it, "metaData") -> 1
      [] IsVertex(it, "project") -> 2
      [] IsEvent(it, "begin", "project") -> 3
      [] IsVertex(it, "document") \/ IsEvent(it, "begin", "document") -> 4
      [] IsVertex(it, "range") -> 5
      [] it.label \in GroupLabels -> 6
      [] (IsEdge(it, "contains") /\ it.outV.p = "document:")
            \/ IsEvent(it, "end", "document") -> 7
      [] IsEdge(it, "contains") /\ it.outV.p = "project" -> 8
      [] IsEvent(it, "end", "project") -> 9

(* C7: the stream is the metadata vertex, the project vertex, projectBegin, *)
(* then per document its vertex immediately followed by its documentBegin,  *)
(* then all range vertices, then all definition-group items, then per       *)
(* document its contains edge immediately followed by its documentEnd, then *)
(* the one projectContains edge, then projectEnd as the last item: no range *)
(* vertex after the first resultSet, no group item after the first document *)
(* contains edge.                                                           *)
C7_PhaseOrder ==
    /\ \A n \in Emitted : n < Len(out) => Phase(out[n]) <= Phase(out[n + 1])
    /\ \A n \in Emitted : n <= 3 => Phase(out[n]) = n
    /\ \A n \in Emitted : Phase(out[n]) <= 3 => n = Phase(out[n])
    /\ \A n \in Emitted :
           IsVertex(out[n], "document") =>
               (n < Len(out) => /\ IsEvent(out[n + 1], "begin", "document")
                                /\ out[n + 1].data = out[n].id)
    /\ \A n \in Emitted :
           IsEvent(out[n], "begin", "document") =>
               IsVertex(out[n - 1], "document") /\ out[n - 1].id = out[n].data
    /\ \A n \in Emitted :
           (IsEdge(out[n], "contains") /\ out[n].outV.p = "document:") =>
               (n < Len(out) => /\ IsEvent(out[n + 1], "end", "document")
                                /\ out[n + 1].data = out[n].outV)
    /\ \A n \in Emitted :
           IsEvent(out[n], "end", "document") =>
               /\ IsEdge(out[n - 1], "contains")
               /\ out[n - 1].outV = out[n].data
    /\ \A n \in Emitted : Phase(out[n]) = 9 => n = Len(out) /\ Phase(out[n - 1]) = 8
    /\ \A n \in Emitted : Phase(out[n]) = 8 => Phase(out[n - 1]) # 8
    /\ pc = "done" =>
           /\ Phase(out[Len(out)]) = 9
           /\ \A d \in 1..Len(docs) :
                  /\ Cardinality({n \in Emitted : /\ IsVertex(out[n], "document")
                                                  /\ out[n].id = Id("document:", docs[d])}) = 1
                  /\ Cardinality({n \in Emitted : /\ IsEdge(out[n], "contains")
                                                  /\ out[n].outV = Id("document:", docs[d])}) = 1

\* a finished run with two documents, two ranges and two groups
C7_Witness ==
    /\ pc = "done"
    /\ Len(docs) >= 2
    /\ Len(locByRange) >= 2
    /\ Len(refsByDef) >= 2

-----------------------------------------------------------------------------
-----------------------------------------------------------------------------
(* C9: a definition group whose definition range has an import moniker      *)
(* emits the import moniker vertex, the moniker edge from the result set to *)
(* it, the package vertex and the packageInformation edge from the moniker  *)
(* to the package; it emits no definitionResult vertex, no                  *)
(* textDocument/definition edge, no definition item edge and no item edge   *)
(* tagged `definitions`; its referenceResult vertex, next edges and         *)
(* `references` item edges are those of the group without moniker.          *)

\* the items of the group of `def` that step 6, 7, 9 and 10 emit
IsReferencePart(it, def) ==
    \/ IsVertex(it, "referenceResult") /\ it.id = Id("reference:", def)
    \/ IsEdge(it, "textDocument/references") /\ it.outV = Id("resultSet:", def)
    \/ IsEdge(it, "next") /\ it.inV = Id("resultSet:", def)
    \/ IsTagged(it, "references") /\ it.outV = Id("reference:", def)

HasItem(it) == \E n \in Emitted : out[n] = it

C9_ImportMonikerGroup ==
    \A g \in Groups :
        LET def == refsByDef[g].k
            refs == refsByDef[g].v
        IN  (GroupDone(g) /\ HasMoniker(importMonikerByRange, def)
                /\ MapHas(locByRange, def)) =>
            LET m == importMonikerByRange[def]
                package == Id("package:" \o m.packageInformation, <<>>)
                moniker == Id("moniker:import:", def)
            IN  /\ \E n \in Emitted :
                       /\ IsVertex(out[n], "moniker")
                       /\ out[n].id = moniker
                       /\ out[n].kind = "import"
                       /\ out[n].identifier = m.moniker
                /\ \E n \in Emitted :
                       /\ IsEdge(out[n], "moniker")
                       /\ out[n].outV = Id("resultSet:", def)
                       /\ out[n].inV = moniker
                /\ \E n \in Emitted :
                       /\ IsVertex(out[n], "packageInformation")
                       /\ out[n].id = package
                       /\ out[n].name = m.packageInformation
                /\ \E n \in Emitted :
                       /\ IsEdge(out[n], "packageInformation")
                       /\ out[n].outV = moniker
                       /\ out[n].inV = package
                /\ \A n \in Emitted :
                       /\ ~(IsVertex(out[n], "definitionResult")
                                /\ out[n].id = Id("definition:", def))
                       /\ ~(IsEdge(out[n], "textDocument/definition")
                                /\ out[n].outV = Id("resultSet:", def))
                       /\ ~(IsEdge(out[n], "item")
                                /\ out[n].outV = Id("definition:", def))
                       /\ ~(IsTagged(out[n], "definitions")
                                /\ out[n].outV = Id("reference:", def))
                /\ SelectSeq(out, LAMBDA it : IsReferencePart(it, def))
                     = SelectSeq(GroupItems(def, refs, MapGet(locByRange, def),
                                            hoverByDef, <<>>, <<>>),
                                 LAMBDA it : IsReferencePart(it, def))

\* a finished run with a group that has an import moniker and a reference in
\* a second document, and a group that has none
C9_Witness ==
    /\ pc = "done"
    /\ \E g, h \in Groups :
           /\ HasMoniker(importMonikerByRange, refsByDef[g].k)
           /\ Len(GroupKeys(refsByDef[g].v)) >= 1
           /\ ~HasMoniker(importMonikerByRange, refsByDef[h].k)
           /\ HasItem(DefinitionsItem(refsByDef[h].k,
                                      MapGet(locByRange, refsByDef[h].k)))

-----------------------------------------------------------------------------
(* C10: when two distinct definition groups have export monikers naming the *)
(* same package, the finished stream holds exactly two packageInformation   *)
(* vertices of that package and both have the id `package:<packageId>`:     *)
(* one vertex per moniker of a group, nothing is deduplicated.              *)

\* the groups whose moniker in `map` names the package
GroupsNaming(map, package) ==
    {g \in Groups : /\ HasMoniker(map, refsByDef[g].k)
                    /\ map[refsByDef[g].k].packageInformation = package}

PackageVertices(package) ==
    {n \in Emitted : /\ IsVertex(out[n], "packageInformation")
                     /\ out[n].name = package}

C10_PackageVertexPerGroup ==
    pc = "done" =>
        \A package \in Packages :
            LET exporting == GroupsNaming(exportMonikerByRange, package)
                importing == GroupsNaming(importMonikerByRange, package)
            IN  /\ (Cardinality(exporting) = 2 /\ importing = {}) =>
                       Cardinality(PackageVertices(package)) = 2
                /\ Cardinality(PackageVertices(package))
                     = Cardinality(exporting) + Cardinality(importing)
                /\ \A n \in PackageVertices(package) :
                       out[n].id = Id("package:" \o package, <<>>)

\* a finished run in which two groups export into one package and the
\* stream holds two package vertices with one id
C10_Witness ==
    /\ pc = "done"
    /\ \E package \in Packages :
           /\ Cardinality(GroupsNaming(exportMonikerByRange, package)) = 2
           /\ GroupsNaming(importMonikerByRange, package) = {}
           /\ \E m, n \in PackageVertices(package) :
                  m # n /\ out[m].id = out[n].id

-----------------------------------------------------------------------------
(* C11: at most one emit call is outstanding -- the engine calls emit for   *)
(* the next item only after the promise of the item before has resolved --  *)
(* so with a sink that suspends per item the sink completes the items in    *)
(* the order the engine produced them.                                      *)
C11_OneEmitOutstanding ==
    /\ Len(pending) <= 1
    /\ Len(out) <= Len(calls)
    /\ out = SubSeq(calls, 1, Len(out))
    /\ pending # <<>> => pc = "await" /\ calls = out \o pending

\* the suspending sink holds an item while it has completed others
C11_Witness ==
    /\ sink = "suspending"
    /\ pc = "await"
    /\ Len(pending) = 1
    /\ Len(out) >= 5
    /\ resume.pc = "defs"

-----------------------------------------------------------------------------
(* C12: when emit rejects for an item, writeLSIF rejects with that error,   *)
(* emit is not called again in that run (no later item, no second call for  *)
(* the failed item), and the items the sink accepted before stay accepted.  *)
C12_SinkRejectionAborts ==
    [][/\ (error = "" /\ error' = "SinkError") =>
              /\ pc' = "failed"
              /\ out' = out /\ outFile' = outFile
       /\ error = "SinkError" =>
              /\ error' = "SinkError"
              /\ pc' \in {"failed", "exited"}
              /\ calls' = calls
              /\ out' = out /\ outFile' = outFile]_vars

\* the suspending sink has rejected an item after accepting others
C12_Witness ==
    /\ sink = "suspending"
    /\ error = "SinkError"
    /\ pc = "failed"
    /\ Len(out) >= 3
    /\ Len(calls) = Len(out) + 1

-----------------------------------------------------------------------------
(* C19: the command line removes an existing output file before the first   *)
(* item is appended, so after a successful run the file holds this run's    *)
(* items, one per line, in emission order; when writeLSIF fails the process *)
(* exits with code 1 and the lines appended before the failure remain.      *)
LinesOf(items) == [n \in 1..Len(items) |-> Line(items[n])]

-----------------------------------------------------------------------------
(* C13: when the input glob matches no file, writeLSIF fails with an error  *)
(* and emit is never called, not even for the metadata vertex.              *)
C13_EmptyGlobFails ==
    (dialect = "B" /\ inFiles = <<>> /\ pc # "load") =>
        /\ pc = "failed"
        /\ error = "Error"
        /\ calls = <<>>
        /\ out = <<>>

\* writeLSIF of lsif.ts has returned from a glob without a match
C13_Witness ==
    /\ dialect = "B"
    /\ inFiles = <<>>
    /\ pc = "failed"
    /\ error = "Error"

-----------------------------------------------------------------------------
(* C14: loading an input in which the same range (same document, same start *)
(* and end) occurs in two facts never aborts the run, in either dialect:    *)
(* the later fact replaces the earlier one and emission proceeds.  In       *)
(* dialect A the second INSERT of a range violates the UNIQUE index of its  *)
(* table and the load throws.                                               *)

\* the facts of the input: the rows of dialect B, the symbols and the
\* referencing ranges of dialect A
RECURSIVE FactsA(_)
FactsA(ls) ==
    IF ls = <<>> THEN <<>>
    ELSE LET l == Head(ls)
         IN  (IF l.kind = "symbol"
              THEN <<[table |-> "symbols", file |-> l.file, range |-> l.range]>>
              ELSE [n \in 1..Len(l.ranges) |->
                       [table |-> "refs", file |-> l.file, range |-> l.ranges[n]]])
             \o FactsA(Tail(ls))

SameRange(f, g) ==
    IF dialect = "A" THEN f = g
    ELSE f.file = g.file /\ f.start = g.start /\ f.end = g.end

Facts == IF dialect = "A" THEN FactsA(inFiles) ELSE RowsOfLines(inFiles)

HasDuplicateFacts ==
    \E m, n \in 1..Len(Facts) : m < n /\ SameRange(Facts[m], Facts[n])

C14_DuplicateRangeLoads ==
    (pc # "load" /\ HasDuplicateFacts) =>
        /\ pc # "failed"
        /\ dialect = "B" =>
               \A n \in 1..Len(Facts) :
                   (\A m \in (n + 1)..Len(Facts) : ~SameRange(Facts[m], Facts[n]))
                       => \E r \in 1..Len(db.lines) : db.lines[r] = Facts[n]

-----------------------------------------------------------------------------
\* the numbers of a range text `L:s-e`
TextOf(range) ==
    [L |-> ParseInt(Split(range, ":")[1]),
     s |-> ParseInt(Split(Split(range, ":")[2], "-")[1]),
     e |-> ParseInt(Split(Split(range, ":")[2], "-")[2])]

\* the loop over locByRange is over
RangesDone == pc \in {"defs", "docsEnd", "projectContains", "projectEnd", "done"}

\* a range vertex of the file with these positions has been emitted
HasRangeVertex(file, startLine, startCharacter, endLine, endCharacter) ==
    \E n \in Emitted :
        /\ IsVertex(out[n], "range")
        /\ out[n].id = RangeId(file \o Colon \o Dec(startLine)
                                    \o Colon \o Dec(startCharacter))
        /\ out[n].start = [line |-> startLine, character |-> startCharacter]
        /\ out[n].end = [line |-> endLine, character |-> endCharacter]

(* C15 as stated: in dialect A a range written `L:s-e`, of a symbol or of a *)
(* references line, yields a range vertex with start.line = end.line =      *)
(* L - 1, start.character = s and end.character = e.                        *)
C15_LineMinusOne ==
    (dialect = "A" /\ RangesDone) =>
        \A n \in 1..Len(Facts) :
            LET t == TextOf(Facts[n].range)
            IN  HasRangeVertex(Facts[n].file, t.L - 1, t.s, t.L - 1, t.e)

(* C15 amended: in dialect A a range written `L:s-e`, of a symbol or of a   *)
(* references line, yields a range vertex with start.line = end.line = L    *)
(* (the line is kept as written), start.character = s, and end.character =  *)
(* e or, when other ranges of the input start at the same place of the      *)
(* file, the end column of one of them.                                     *)
C15_LineKept ==
    (dialect = "A" /\ RangesDone) =>
        \A n \in 1..Len(Facts) :
            LET t == TextOf(Facts[n].range)
            IN  \E m \in 1..Len(Facts) :
                    LET u == TextOf(Facts[m].range)
                    IN  /\ Facts[m].file = Facts[n].file
                        /\ u.L = t.L /\ u.s = t.s
                        /\ HasRangeVertex(Facts[n].file, t.L, t.s, t.L, u.e)

\* the ranges of a symbol on line 2 and of a reference on line 1 have been
\* emitted
C15_Witness ==
    /\ dialect = "A"
    /\ pc = "done"
    /\ HasRangeVertex(FileB, 2, 0, 2, 1)
    /\ HasRangeVertex(FileAB, 1, 0, 1, 3)

-----------------------------------------------------------------------------
(* C16 as stated: in dialect A every range of a references line is in the  *)
(* reference set of the symbol of the nearest preceding symbol line and of  *)
(* no other symbol, for any interleaving of the lines; a references line    *)
(* before every symbol line joins no definition group.  The reference sets  *)
(* hold range keys, which leave out the end column: two ranges that start   *)
(* at one place are one key.                                                *)

\* the key file:L:s of a range text of a file
KeyOf(file, range) ==
    file \o Colon \o Dec(TextOf(range).L) \o Colon \o Dec(TextOf(range).s)

\* the lines before line k that are symbol lines
SymbolsBefore(k) == {p \in 1..(k - 1) : inFiles[p].kind = "symbol"}

\* the keys of the groups whose reference set holds the key
GroupsOf(key) ==
    {refsByDef[g].k : g \in {h \in Groups : SetHas(refsByDef[h].v, key)}}

C16_NearestPrecedingSymbol ==
    (dialect = "A" /\ pc \notin {"load", "failed"}) =>
        \A k \in 1..Len(inFiles) :
            inFiles[k].kind = "references" =>
                \A n \in 1..Len(inFiles[k].ranges) :
                    LET key == KeyOf(inFiles[k].file, inFiles[k].ranges[n])
                    IN  IF SymbolsBefore(k) = {} THEN GroupsOf(key) = {}
                        ELSE LET p == CHOOSE q \in SymbolsBefore(k) :
                                          \A r \in SymbolsBefore(k) : r <= q
                             IN  GroupsOf(key)
                                   = {KeyOf(inFiles[p].file, inFiles[p].range)}

\* the symbol line a references line k belongs to
NearestSymbol(k) ==
    CHOOSE q \in SymbolsBefore(k) : \A r \in SymbolsBefore(k) : r <= q

\* the keys of the symbols under which a references line lists a range with
\* this key
SymbolsListing(key) ==
    {KeyOf(inFiles[NearestSymbol(k)].file, inFiles[NearestSymbol(k)].range) :
        k \in {h \in 1..Len(inFiles) :
                  /\ inFiles[h].kind = "references"
                  /\ SymbolsBefore(h) # {}
                  /\ \E n \in 1..Len(inFiles[h].ranges) :
                         KeyOf(inFiles[h].file, inFiles[h].ranges[n]) = key}}

(* C16 amended: in dialect A the range key (file, line, start column) of    *)
(* every range of a references line is in the reference set of the symbol   *)
(* of the nearest preceding symbol line, for any interleaving of the lines; *)
(* it is in the reference set of another symbol exactly when a references   *)
(* line under that symbol lists a range with the same key, and the key of a *)
(* range listed before every symbol line is in a reference set only then.   *)
C16_CorrelatedBySymbolId ==
    (dialect = "A" /\ pc \notin {"load", "failed"}) =>
        \A k \in 1..Len(inFiles) :
            inFiles[k].kind = "references" =>
                \A n \in 1..Len(inFiles[k].ranges) :
                    LET key == KeyOf(inFiles[k].file, inFiles[k].ranges[n])
                    IN  GroupsOf(key) = SymbolsListing(key)

\* a references line after two symbol lines has been loaded: its ranges are
\* references of the second symbol alone
C16_Witness ==
    /\ dialect = "A"
    /\ pc = "done"
    /\ \E k \in 1..Len(inFiles) :
           /\ inFiles[k].kind = "references"
           /\ Cardinality(SymbolsBefore(k)) = 2
           /\ GroupsOf(KeyOf(inFiles[k].file, inFiles[k].ranges[1]))
                = {KeyOf(inFiles[NearestSymbol(k)].file,
                         inFiles[NearestSymbol(k)].range)}
    /\ Len(refsByDef) = 1

-----------------------------------------------------------------------------
(* C17: every range that occurs in the loaded facts, as a fact's own range  *)
(* or as its definition range, is emitted as exactly one range vertex (one  *)
(* per key document:line:column), and no range vertex is emitted for a      *)
(* range that occurs in no fact.  In dialect B the vertex of a range in a   *)
(* file whose name holds a colon gets the key without the colon as its id.  *)

\* the keys of the ranges of the rows of the database
FactKeys ==
    IF dialect = "B"
    THEN {db.lines[n].file \o Colon \o db.lines[n].start : n \in 1..Len(db.lines)}
         \cup {db.lines[n].deffile \o Colon \o db.lines[n].defstart :
                  n \in 1..Len(db.lines)}
    ELSE {db.symbols[n].deffile \o Colon \o Dec(db.symbols[n].defline)
            \o Colon \o Dec(db.symbols[n].defstartcol) : n \in 1..Len(db.symbols)}
         \cup {db.refs[n].reffile \o Colon \o Dec(db.refs[n].refline)
                  \o Colon \o Dec(db.refs[n].refstartcol) : n \in 1..Len(db.refs)}

RangeVertices(key) ==
    {n \in Emitted : IsVertex(out[n], "range") /\ out[n].id = RangeId(key)}

C17_OneVertexPerRange ==
    RangesDone =>
        /\ \A key \in FactKeys : Cardinality(RangeVertices(key)) = 1
        /\ \A n \in Emitted :
               IsVertex(out[n], "range") => \E key \in FactKeys : out[n].id = RangeId(key)

-----------------------------------------------------------------------------
(* C18: parsing a location text raises an error when it has fewer than      *)
(* three colon-separated components and also when its line or column is no  *)
(* number: an input with a non-numeric line or column never yields a range  *)
(* vertex, and the error is raised before the first item is emitted.        *)
(* parseFilePosition takes what parseInt returns and tests nothing.         *)
IsNumber(n) == n # NaN

\* a record of dialect B with a line that is no number
NonNumeric(l) ==
    /\ l.kind = "record"
    /\ \/ ~IsNumber(l.start.line) \/ ~IsNumber(l.end.line)
       \/ ~IsNumber(l.definition.pos.line)

C18_NonNumericRaises ==
    /\ \A n \in Emitted :
           IsVertex(out[n], "range") =>
               /\ IsNumber(out[n].start.line) /\ IsNumber(out[n].start.character)
               /\ IsNumber(out[n].end.line) /\ IsNumber(out[n].end.character)
    /\ (dialect = "B" /\ \E k \in 1..Len(inFiles) : NonNumeric(inFiles[k]))
           => out = <<>> /\ pc \in {"load", "failed"}

-----------------------------------------------------------------------------
(* C20: the items of a definition group without import and export moniker   *)
(* are emitted contiguously, in this order: the resultSet vertex; the next  *)
(* edge from the definition range to it; the definitionResult vertex; the   *)
(* textDocument/definition edge; the item edge from the definitionResult to *)
(* the definition range, with the definition's document; the hoverResult    *)
(* vertex and the textDocument/hover edge when there is a hover; the        *)
(* referenceResult vertex; the textDocument/references edge; the item edge  *)
(* tagged `definitions`; one next edge per referencing range; one item edge *)
(* tagged `references` per owning document of the referencing ranges.       *)
(* Every vertex of the group comes before the edges that name it.           *)

\* the documents whose ranges hold the key
OwnersOf(key) ==
    {rangesByDoc[d].k : d \in {e \in 1..Len(rangesByDoc) : SetHas(rangesByDoc[e].v, key)}}

\* the stream holds the items of the group of `def` from position a on
GroupAt(a, def, refs) ==
    LET hover  == IF HoverOf(hoverByDef, def) # <<>> THEN 2 ELSE 0
        h      == a + 5 + hover
        owners == UNION {OwnersOf(refs[k]) : k \in 1..Len(refs)}
        last   == h + 2 + Len(refs) + Cardinality(owners)
        set    == Id("resultSet:", def)
    IN  /\ last <= Len(out)
        /\ IsVertex(out[a], "resultSet") /\ out[a].id = set
        /\ IsEdge(out[a + 1], "next")
        /\ out[a + 1].outV = RangeId(def) /\ out[a + 1].inV = set
        /\ IsVertex(out[a + 2], "definitionResult")
        /\ IsEdge(out[a + 3], "textDocument/definition")
        /\ out[a + 3].outV = set /\ out[a + 3].inV = out[a + 2].id
        /\ IsEdge(out[a + 4], "item") /\ "property" \notin DOMAIN out[a + 4]
        /\ out[a + 4].outV = out[a + 2].id
        /\ out[a + 4].inVs = <<RangeId(def)>>
        /\ {out[a + 4].document} = {Id("document:", d) : d \in OwnersOf(def)}
        /\ hover = 2 =>
               /\ IsVertex(out[a + 5], "hoverResult")
               /\ IsEdge(out[a + 6], "textDocument/hover")
               /\ out[a + 6].outV = set /\ out[a + 6].inV = out[a + 5].id
        /\ IsVertex(out[h], "referenceResult")
        /\ IsEdge(out[h + 1], "textDocument/references")
        /\ out[h + 1].outV = set /\ out[h + 1].inV = out[h].id
        /\ IsTagged(out[h + 2], "definitions")
        /\ out[h + 2].outV = out[h].id
        /\ out[h + 2].inVs = <<RangeId(def)>>
        /\ \A k \in 1..Len(refs) :
               /\ IsEdge(out[h + 2 + k], "next")
               /\ out[h + 2 + k].outV = RangeId(refs[k])
               /\ out[h + 2 + k].inV = set
        /\ \A n \in (h + 3 + Len(refs))..last :
               /\ IsTagged(out[n], "references")
               /\ out[n].outV = out[h].id
               /\ \E d \in owners :
                      /\ out[n].document = Id("document:", d)
                      /\ {out[n].inVs[m] : m \in 1..Len(out[n].inVs)}
                           = {RangeId(refs[k]) :
                                k \in {q \in 1..Len(refs) : d \in OwnersOf(refs[q])}}
        /\ \A m, n \in (h + 3 + Len(refs))..last :
               m # n => out[m].document # out[n].document
        /\ last < Len(out) =>
               \/ IsVertex(out[last + 1], "resultSet")
               \/ Phase(out[last + 1]) > 6

C20_GroupOrder ==
    \A g \in Groups :
        (/\ GroupDone(g)
         /\ ~HasMoniker(importMonikerByRange, refsByDef[g].k)
         /\ ~HasMoniker(exportMonikerByRange, refsByDef[g].k)) =>
            \E a \in Emitted : GroupAt(a, refsByDef[g].k, refsByDef[g].v)

-----------------------------------------------------------------------------
(* C21: emit is not called before every input file has been read and docs,  *)
(* rangesByDoc, refsByDef, hoverByDef and locByRange are fully built, and    *)
(* these five structures are unchanged between the first and the last emit  *)
(* call; an input that fails to load (a line that is no JSON text, a        *)
(* constraint violation) leads to zero emitted items.                       *)

\* the load of the input throws
LoadFails ==
    IF dialect = "A" THEN LoadedA.threw
    ELSE \/ inFiles = <<>>
         \/ \E k \in 1..Len(inFiles) : Malformed(inFiles[k])
         \/ IndexB(LoadedDbB.lines).threw

\* a range key is recorded with its document
Recorded(file, key) ==
    /\ SetHas(docs, file)
    /\ MapHas(rangesByDoc, file) /\ SetHas(MapGet(rangesByDoc, file), key)
    /\ MapHas(locByRange, key)

\* a referencing range is recorded under its definition range
Linked(def, ref) ==
    /\ MapHas(refsByDef, def) /\ SetHas(MapGet(refsByDef, def), ref)
    /\ MapHas(hoverByDef, def)

\* every line of the input is in the maps
FullyBuilt ==
    IF dialect = "B"
    THEN \A k \in 1..Len(inFiles) :
             LET r == RebaseRecord(inFiles[k])
                 ref == r.src \o Colon \o stringifyPosition(r.start)
                 def == r.definition.file \o Colon
                            \o stringifyPosition(r.definition.pos)
             IN  (r.definition.file = <<>> \/ r.definition.file[1] # "/") =>
                     /\ Recorded(r.src, ref)
                     /\ Recorded(r.definition.file, def)
                     /\ Linked(def, ref)
    ELSE \A k \in 1..Len(inFiles) :
             IF inFiles[k].kind = "symbol"
             THEN Recorded(inFiles[k].file, KeyOf(inFiles[k].file, inFiles[k].range))
             ELSE \A n \in 1..Len(inFiles[k].ranges) :
                      LET ref == KeyOf(inFiles[k].file, inFiles[k].ranges[n])
                      IN  /\ Recorded(inFiles[k].file, ref)
                          /\ SymbolsBefore(k) # {} =>
                                 Linked(KeyOf(inFiles[NearestSymbol(k)].file,
                                              inFiles[NearestSymbol(k)].range), ref)

C21_StoreBuiltBeforeEmission ==
    /\ [](pc = "load" => calls = <<>>)
    /\ [](calls # <<>> => ~LoadFails /\ FullyBuilt)
    /\ [](LoadFails => calls = <<>> /\ out = <<>> /\ pc \in {"load", "failed"})
    /\ [][calls' # <<>> =>
              UNCHANGED <<docs, rangesByDoc, refsByDef, hoverByDef, locByRange>>]_vars

\* a run over three lines has ended; its maps hold two documents and a group
C21_Witness ==
    /\ pc = "done"
    /\ Len(inFiles) = MaxLines
    /\ Len(calls) >= 20
    /\ Len(docs) >= 2
    /\ Len(refsByDef) >= 1
    /\ FullyBuilt

-----------------------------------------------------------------------------
(* C22: a definition group emits a hoverResult vertex and a                 *)
(* textDocument/hover edge from its result set to that vertex, once each,   *)
(* if and only if a hover text is recorded for its definition range; the    *)
(* text carried is that of the last fact processed for the definition range *)
(* (last write wins), and no group emits more than one hoverResult.         *)

\* the facts in the order the loop that links defs and refs takes them, each
\* with the key of its definition range and its hover text
HoverRows ==
    IF dialect = "B"
    THEN LET rows == SelectLinksB(db.lines)
         IN  [n \in 1..Len(rows) |->
                [def |-> rows[n].deffile \o Colon \o rows[n].defstart,
                 hover |-> rows[n].type]]
    ELSE LET rows == SelectLinksA(db.refs, db.symbols)
         IN  [n \in 1..Len(rows) |->
                [def |-> rows[n].deffile \o Colon \o Dec(rows[n].defline)
                            \o Colon \o Dec(rows[n].defstartcol),
                 hover |-> rows[n].hover]]

\* the hover texts of the facts of a definition range, in that order
HoverWrites(def) ==
    LET rows == SelectSeq(HoverRows, LAMBDA r : r.def = def)
    IN  [n \in 1..Len(rows) |-> rows[n].hover]

HoverVertices(def) ==
    {n \in Emitted : IsVertex(out[n], "hoverResult") /\ out[n].id = Id("hover:", def)}

HoverEdges(def) ==
    {n \in Emitted : /\ IsEdge(out[n], "textDocument/hover")
                     /\ out[n].outV = Id("resultSet:", def)}

C22_HoverLastWriteWins ==
    /\ \A g \in Groups :
           LET def    == refsByDef[g].k
               writes == HoverWrites(def)
           IN  GroupDone(g) =>
                   IF writes = <<>> \/ writes[Len(writes)] = ""
                   THEN HoverVertices(def) = {} /\ HoverEdges(def) = {}
                   ELSE /\ Cardinality(HoverVertices(def)) = 1
                        /\ Cardinality(HoverEdges(def)) = 1
                        /\ \A n \in HoverVertices(def) :
                               out[n].result.contents = writes[Len(writes)]
                        /\ \A n \in HoverEdges(def) : out[n].inV = Id("hover:", def)
    /\ \A n \in Emitted :
           IsVertex(out[n], "hoverResult") =>
               \E g \in Groups : out[n].id = Id("hover:", refsByDef[g].k)

\* a finished run in which the facts of one definition range carry two hover
\* texts, and the group's hoverResult carries the later one
C22_Witness ==
    /\ pc = "done"
    /\ \E g \in Groups :
           LET writes == HoverWrites(refsByDef[g].k)
           IN  /\ Len(writes) >= 2
               /\ writes[1] # writes[Len(writes)]
               /\ \E n \in HoverVertices(refsByDef[g].k) :
                      out[n].result.contents = writes[Len(writes)]

-----------------------------------------------------------------------------
\* the key of the definition range of a symbol row
SymbolKey(r) == r.deffile \o Colon \o Dec(r.defline) \o Colon \o Dec(r.defstartcol)

\* the key of the definition range of a record of dialect B
DefinitionKey(l) ==
    RebaseRecord(l).definition.file \o Colon
        \o stringifyPosition(RebaseRecord(l).definition.pos)

\* the definition ranges of the input to which no reference (dialect A), no
\* fact (dialect B) of the loaded store points, each with its document
Unreferenced ==
    IF dialect = "A"
    THEN {[file |-> db.symbols[m].deffile, key |-> SymbolKey(db.symbols[m])] :
            m \in {n \in 1..Len(db.symbols) :
                     \A k \in 1..Len(db.symbols) :
                         SymbolKey(db.symbols[k]) = SymbolKey(db.symbols[n]) =>
                             \A q \in 1..Len(db.refs) :
                                 db.refs[q].sid # db.symbols[k].id}}
    ELSE {[file |-> RebaseRecord(inFiles[m]).definition.file,
           key |-> DefinitionKey(inFiles[m])] :
            m \in {n \in 1..Len(inFiles) :
                     /\ inFiles[n].kind = "record"
                     /\ \A r \in 1..Len(db.lines) :
                            db.lines[r].deffile \o Colon \o db.lines[r].defstart
                                # DefinitionKey(inFiles[n])}}

\* no item of a definition group of the key has been emitted
NoGroupItems(key) ==
    \A n \in Emitted :
        /\ out[n].id \notin {Id("resultSet:", key), Id("definition:", key),
                              Id("hover:", key), Id("reference:", key)}
        /\ out[n].type = "edge" =>
               /\ Id("resultSet:", key) \notin Targets(out[n]) \cup {out[n].outV}
               /\ Id("reference:", key) \notin Targets(out[n]) \cup {out[n].outV}
               /\ Id("definition:", key) \notin Targets(out[n]) \cup {out[n].outV}

\* in a finished run of dialect A the range of the key has its vertex and is
\* listed in the contains edge of its document
StillRange(file, key) ==
    (dialect = "A" /\ pc = "done") =>
        /\ Cardinality(RangeVertices(key)) = 1
        /\ \E n \in Emitted :
               /\ IsEdge(out[n], "contains")
               /\ out[n].outV = Id("document:", file)
               /\ RangeId(key) \in Targets(out[n])

(* C23 as stated: a definition range to which no fact (dialect B) or no     *)
(* reference (dialect A) points gets no resultSet, no definitionResult, no  *)
(* hoverResult and no referenceResult item and no next edge; in dialect A   *)
(* such a symbol is still emitted as a range vertex and is still listed in  *)
(* the contains edge of its document.                                       *)
C23_NoNextEdge ==
    pc \notin {"load", "failed"} =>
        \A u \in Unreferenced :
            /\ NoGroupItems(u.key)
            /\ \A n \in Emitted :
                   IsEdge(out[n], "next") => out[n].outV # RangeId(u.key)
            /\ StillRange(u.file, u.key)

(* C23 amended: such a definition range gets no resultSet, no               *)
(* definitionResult, no hoverResult and no referenceResult item and no next *)
(* edge to a result set of its own; a next edge leaves it only when the     *)
(* range is itself a referencing range of another definition range, and     *)
(* then leads to the result set of that one.  In dialect A such a symbol is *)
(* still emitted as a range vertex and is still listed in the contains edge *)
(* of its document.                                                         *)
C23_NoGroupWithoutReference ==
    pc \notin {"load", "failed"} =>
        \A u \in Unreferenced :
            /\ NoGroupItems(u.key)
            /\ \A n \in Emitted :
                   (IsEdge(out[n], "next") /\ out[n].outV = RangeId(u.key)) =>
                       \E g \in Groups :
                           /\ refsByDef[g].k # u.key
                           /\ SetHas(refsByDef[g].v, u.key)
                           /\ out[n].inV = Id("resultSet:", refsByDef[g].k)
            /\ StillRange(u.file, u.key)

\* a finished run of dialect A with a symbol that has no reference and a
\* symbol that has one: the first has its range vertex and no result set
C23_Witness ==
    /\ dialect = "A"
    /\ pc = "done"
    /\ Len(refsByDef) >= 1
    /\ \E u \in Unreferenced :
           /\ Cardinality(RangeVertices(u.key)) = 1
           /\ NoGroupItems(u.key)

-----------------------------------------------------------------------------
(* C24: each emitted document has exactly one contains edge, whose inVs are *)
(* exactly the ids of the emitted range vertices located in that document,  *)
(* each listed once; every emitted range vertex is listed in exactly one    *)
(* document's contains edge; and the projectContains edge lists the id of   *)
(* every emitted document vertex exactly once and nothing else.  In dialect *)
(* B the vertex of a range of a file whose name holds a colon has an id     *)
(* without the colon, which no contains edge lists.                         *)

\* the range id is document:line:column of this document
LocatedIn(id, doc) ==
    /\ id.p = ""
    /\ Len(id.s) > Len(doc) + 1
    /\ SubSeq(id.s, 1, Len(doc) + 1) = doc \o Colon
    /\ Len(Split(SubSeq(id.s, Len(doc) + 2, Len(id.s)), ":")) = 2

\* the contains edges of the documents
DocumentContains ==
    {n \in Emitted : IsEdge(out[n], "contains") /\ out[n].outV.p = "document:"}

NoRepetition(seq) == \A a, b \in 1..Len(seq) : a # b => seq[a] # seq[b]

C24_ContainsEdges ==
    pc = "done" =>
        /\ \A d \in Emitted :
               IsVertex(out[d], "document") =>
                   /\ Cardinality({n \in DocumentContains :
                                      out[n].outV = out[d].id}) = 1
                   /\ \A n \in DocumentContains :
                          out[n].outV = out[d].id =>
                              /\ NoRepetition(out[n].inVs)
                              /\ Targets(out[n])
                                   = {out[r].id : r \in {q \in Emitted :
                                         /\ IsVertex(out[q], "range")
                                         /\ LocatedIn(out[q].id, out[d].id.s)}}
        /\ \A r \in Emitted :
               IsVertex(out[r], "range") =>
                   Cardinality({n \in DocumentContains :
                                   out[r].id \in Targets(out[n])}) = 1
        /\ \A n \in DocumentContains :
               \E d \in Emitted : IsVertex(out[d], "document") /\ out[d].id = out[n].outV
        /\ \A n \in Emitted :
               (IsEdge(out[n], "contains") /\ out[n].outV.p = "project") =>
                   /\ NoRepetition(out[n].inVs)
                   /\ Targets(out[n])
                        = {out[d].id : d \in {q \in Emitted :
                                                 IsVertex(out[q], "document")}}
        /\ Cardinality({n \in Emitted : /\ IsEdge(out[n], "contains")
                                         /\ out[n].outV.p = "project"}) = 1

-----------------------------------------------------------------------------
(* C25: for every fact with range (document, start, end), the range vertex  *)
(* emitted with id document:start carries that fact's start and that fact's *)
(* end position, also when the same document:start is the definition range  *)
(* of some fact.  In dialect B a definition range is registered after the   *)
(* facts' own ranges with end equal to start, and locByRange.set replaces   *)
(* the location the fact's own range had put under the key.                 *)

\* the position a text line:column of the table `lines` stands for
PositionOf(text) ==
    [line |-> ParseInt(Split(text, ":")[1]),
     character |-> ParseInt(Split(text, ":")[2])]

\* the ranges of the facts of the store: document, start and end
StoredRanges ==
    IF dialect = "B"
    THEN {[file |-> db.lines[n].file, start |-> PositionOf(db.lines[n].start),
           end |-> PositionOf(db.lines[n].end)] : n \in 1..Len(db.lines)}
    ELSE {[file |-> db.symbols[n].deffile,
           start |-> [line |-> db.symbols[n].defline,
                      character |-> db.symbols[n].defstartcol],
           end |-> [line |-> db.symbols[n].defline,
                    character |-> db.symbols[n].defendcol]] :
             n \in 1..Len(db.symbols)}
         \cup {[file |-> db.refs[n].reffile,
                 start |-> [line |-> db.refs[n].refline,
                            character |-> db.refs[n].refstartcol],
                 end |-> [line |-> db.refs[n].refline,
                          character |-> db.refs[n].refendcol]] :
                   n \in 1..Len(db.refs)}

C25_RangeCarriesFactEnd ==
    RangesDone =>
        \A f \in StoredRanges :
            HasRangeVertex(f.file, f.start.line, f.start.character,
                           f.end.line, f.end.character)

-----------------------------------------------------------------------------
(* C26: in the emitted stream every range vertex is the outV of at most one *)
(* next edge, so every range is linked to at most one result set -- also    *)
(* when a definition range is one of its own referencing ranges, when a     *)
(* range is referenced under two definitions, and when a referencing range  *)
(* is another group's definition range.  Step 2 emits a next edge from the  *)
(* definition range and step 9 one from every referencing range, whatever   *)
(* edges the range already has.                                             *)

\* the next edges that leave the range
NextEdgesOf(id) == {n \in Emitted : IsEdge(out[n], "next") /\ out[n].outV = id}

C26_OneNextEdgePerRange ==
    \A r \in Emitted :
        IsVertex(out[r], "range") =>
            /\ Cardinality(NextEdgesOf(out[r].id)) <= 1
            /\ Cardinality({out[n].inV : n \in NextEdgesOf(out[r].id)}) <= 1

====
